---- MODULE Spec2Model ----
(***************************************************************************)
(* Model of the coffee-monitor check cycle (src/src/monitor.js) over the   *)
(* SQLite store (src/src/database/database.js): product rows, the          *)
(* availability history, the notification log, the run-in-progress flag.   *)
(* Time is in seconds (CURRENT_TIMESTAMP has one-second resolution).       *)
(***************************************************************************)
EXTENDS Integers, Sequences, FiniteSets, TLC

\* ------------------------------------------------------------------ bounds
MaxInvocations == 3
MaxHist == 3
MaxBatch == 2
MaxFaults == 1
\* AITagger.batchSize (20 by default, ai-tagger.js 9), scaled to the
\* batches a cycle of the model scrapes.
batchSize == 1

\* ------------------------------------------------------- program constants
HourSecs == 3600
DaySecs == 86400
DefaultHoursAgo == 24
HistoryDays == 1

\* Times the clock may advance by when a cycle is triggered (one hour,
\* twenty-five hours) and between the two INSERTs of one cycle for the same
\* product (none, one second).
StartSteps == {HourSecs, 25 * HourSecs}
StmtSteps == {0, 1}

\* ------------------------------------------------------------ text helpers
LowerChar(c) ==
    CASE c = "A" -> "a" [] c = "B" -> "b" [] c = "C" -> "c" [] c = "D" -> "d"
      [] c = "E" -> "e" [] c = "F" -> "f" [] c = "G" -> "g" [] c = "H" -> "h"
      [] c = "I" -> "i" [] c = "J" -> "j" [] c = "K" -> "k" [] c = "L" -> "l"
      [] c = "M" -> "m" [] c = "N" -> "n" [] c = "O" -> "o" [] c = "P" -> "p"
      [] c = "Q" -> "q" [] c = "R" -> "r" [] c = "S" -> "s" [] c = "T" -> "t"
      [] c = "U" -> "u" [] c = "V" -> "v" [] c = "W" -> "w" [] c = "X" -> "x"
      [] c = "Y" -> "y" [] c = "Z" -> "z" [] OTHER -> c

toLowerCase(s) == [i \in 1..Len(s) |-> LowerChar(s[i])]

includes(s, t) ==
    \E i \in 0..(Len(s) - Len(t)) : SubSeq(s, i + 1, i + Len(t)) = t

IsDigit(c) == c \in {"0", "1", "2", "3", "4", "5", "6", "7", "8", "9"}

Spaces(s, a, b) == \A x \in a..b : s[x] = " "

Digits(s, a, b) == a <= b /\ \A x \in a..b : IsDigit(s[x])

UnitAt(s, m, unit) ==
    /\ m + Len(unit) - 1 <= Len(s)
    /\ toLowerCase(SubSeq(s, m, m + Len(unit) - 1)) = unit

\* /\s*,\s*\d+<unit>.*$/i matches starting at position i
CommaSizeAt(s, i, unit) ==
    \E j \in i..Len(s) :
        /\ Spaces(s, i, j - 1)
        /\ s[j] = ","
        /\ \E k \in (j + 1)..Len(s) :
              /\ Spaces(s, j + 1, k - 1)
              /\ \E m \in (k + 1)..Len(s) :
                    Digits(s, k, m - 1) /\ UnitAt(s, m, unit)

\* /\s+\d+<unit>\s+.*$/i matches starting at position i
MidSizeAt(s, i, unit) ==
    \E k \in (i + 1)..Len(s) :
        /\ Spaces(s, i, k - 1)
        /\ \E m \in (k + 1)..Len(s) :
              /\ Digits(s, k, m - 1)
              /\ UnitAt(s, m, unit)
              /\ m + Len(unit) <= Len(s)
              /\ s[m + Len(unit)] = " "

\* /\s*\d+<unit>$/i matches starting at position i
EndSizeAt(s, i, unit) ==
    \E k \in i..Len(s) :
        /\ Spaces(s, i, k - 1)
        /\ \E m \in (k + 1)..Len(s) :
              /\ Digits(s, k, m - 1)
              /\ UnitAt(s, m, unit)
              /\ m + Len(unit) - 1 = Len(s)

\* String.replace(re, '') for a pattern anchored at the end: the text from
\* the leftmost match start is removed.
CutAt(s, M) ==
    IF M = {} THEN s
    ELSE SubSeq(s, 1, (CHOOSE i \in M : \A j \in M : i <= j) - 1)

trim(s) ==
    LET keep == {i \in 1..Len(s) : s[i] # " "}
    IN  IF keep = {} THEN <<>>
        ELSE SubSeq(s, CHOOSE i \in keep : \A j \in keep : i <= j,
                       CHOOSE i \in keep : \A j \in keep : i >= j)

\* One String.replace of getBaseProductName: M(s, i, unit) is the pattern.
CutCommaSize(s, unit) == CutAt(s, {i \in 1..Len(s) : CommaSizeAt(s, i, unit)})

CutMidSize(s, unit) == CutAt(s, {i \in 1..Len(s) : MidSizeAt(s, i, unit)})

CutEndSize(s, unit) == CutAt(s, {i \in 1..Len(s) : EndSizeAt(s, i, unit)})

getBaseProductName(productName) ==
    trim(CutEndSize(CutEndSize(CutMidSize(CutMidSize(CutCommaSize(CutCommaSize(
        productName, <<"k", "g">>), <<"g">>), <<"k", "g">>), <<"g">>),
        <<"k", "g">>), <<"g">>))

extractSizeFromName(productName) ==
    LET name == toLowerCase(productName)
    IN  IF includes(name, <<"2", "5", "0", "g">>)
           \/ includes(name, <<"2", "5", "0", " ", "g">>)
        THEN "250g"
        ELSE IF includes(name, <<"1", "k", "g">>)
                \/ includes(name, <<"1", " ", "k", "g">>)
                \/ includes(name, <<"1", "0", "0", "0", "g">>)
        THEN "1kg"
        ELSE "null"

\* ------------------------------------------------- scraped listings, config
\* The listings the scraper can return: (name, roastery) keys with the
\* organic flag the shop URL metadata or the name gives them and the prices
\* they are listed at.
Catalogue == <<
    [name |-> <<"P", "e", "r", "u", " ", "2", "5", "0", "g">>, roastery_name |-> "R1", organic |-> FALSE, prices |-> {8}],
    [name |-> <<"P", "e", "r", "u", " ", "1", "k", "g">>, roastery_name |-> "R1", organic |-> TRUE, prices |-> {30}],
    [name |-> <<"K", "e", "n", "y", "a">>, roastery_name |-> "R2", organic |-> FALSE, prices |-> {10, 12}] >>

Keys == 1..Len(Catalogue)

\* Rows of user_favorites with notification_enabled = 1, with their terms.
Favorites == <<
    [name |-> "peru", terms |-> << <<"P", "E", "R", "U">> >>, size_preference |-> "both", organic_only |-> FALSE],
    [name |-> "eco", terms |-> << <<"k", "e", "n", "y", "a">>, <<"p", "e", "r", "u">> >>, size_preference |-> "250g", organic_only |-> TRUE],
    [name |-> "kenya", terms |-> << <<"K", "e", "n", "y", "a">> >>, size_preference |-> "both", organic_only |-> FALSE] >>

Observations ==
    {o \in [key : Keys, available : BOOLEAN, price : {8, 10, 12, 30}] :
        o.price \in Catalogue[o.key].prices}

VARIABLES
    isRunning,           \* CoffeeMonitor.isRunning
    pc,                  \* position of the active checkProducts call
    now,                 \* wall clock, seconds
    preferencesEnabled,  \* config preferences.enabled
    aiEnabled,           \* AITagger.enabled (an API key is configured)
    products,            \* products table: row id -> catalogue key
    product_group_id,    \* products.product_group_id, by row id
    history,             \* availability_history rows, in id order
    notifications_sent,  \* notifications_sent rows, in id order
    batch,               \* allScrapedProducts of the active cycle
    urlIdx,              \* next shop URL to scrape
    idx,                 \* next element of batch to process
    failedAt,            \* <<cycle, element of its batch>> whose processing threw
    changes,             \* the state changes getProductAvailabilityChange reported
    missing,             \* previouslyAvailableProducts still to visit
    results,             \* results of the active cycle
    notifyLog,           \* delivery attempts made by the active cycle
    tags,                \* what aiTagger.tagProducts returned
    tagIdx,              \* the i of the tagging loop
    productGroupsSeen,   \* group ids first met in the tagging loop
    trulyNewProducts,    \* products the tagging loop found truly new
    newVariants,         \* products the tagging loop found to be variants
    tagResults,          \* tagProducts: the bags collected so far
    tagOffset,           \* tagProducts: the i of its loop over the batches
    invocations,         \* number of checkProducts invocations so far
    cycles,              \* invocations that passed the guard
    startHist,           \* Len(history) when the active cycle started
    startSent,           \* Len(notifications_sent) when it started
    outcome,             \* how the last finished cycle ended
    attrs,               \* scoreProduct: the attribute bag it is called with
    preferences,         \* scoreProduct: the preferences it is called with
    verdict,             \* scoreProduct: what it returned
    productName,         \* extractSize: the name it is called with
    size                 \* extractSize: what it returned

vars == <<changes, isRunning, pc, now, preferencesEnabled, aiEnabled, products,
          product_group_id, history, notifications_sent, batch, urlIdx, idx,
          failedAt, missing, results, notifyLog, tags, tagIdx,
          productGroupsSeen, trulyNewProducts, newVariants, tagResults,
          tagOffset, invocations, cycles, startHist, startSent, outcome, attrs, preferences, verdict,
          productName, size>>

\* Arguments and results of the calls of the utility functions.
callVars == <<attrs, preferences, verdict, productName, size>>

configVars == <<preferencesEnabled, aiEnabled>>

dbVars == <<products, product_group_id, history, notifications_sent>>

tagVars == <<tags, tagIdx, productGroupsSeen, trulyNewProducts, newVariants,
             tagResults, tagOffset>>

cycleVars == <<batch, urlIdx, idx, missing, results, notifyLog, tagVars>>

\* monitor.js 133-140; allNewProducts and newVariants are added by the
\* tagging loop (417-419) and are absent (here empty) until then.
EmptyResults ==
    [newProducts |-> <<>>,
     newlyAvailableFavorites |-> <<>>,
     newlyUnavailableFavorites |-> <<>>,
     preferenceMatches |-> <<>>,
     allNewProducts |-> <<>>,
     newVariants |-> <<>>]

\* A NULL product_group_id.
NoGroup == <<>>

\* ----------------------------------------------------------------- helpers
Range(s) == {s[i] : i \in 1..Len(s)}

Max(S) == CHOOSE x \in S : \A y \in S : y <= x

\* ---------------------------------------------------------------- database
\* Database.saveProduct: the row id of (name, roastery), 0 when absent.
ProductId(prods, k) ==
    IF \E i \in 1..Len(prods) : prods[i] = k
    THEN CHOOSE i \in 1..Len(prods) : prods[i] = k
    ELSE 0

\* Variant: every save inserts a row.
saveProductAlwaysInserts(prods, k) == Append(prods, k)

\* Database.saveProduct (database.js 174-195): an existing (name, roastery)
\* row is updated in place, else a row is inserted.
saveProduct(prods, k) ==
    IF ProductId(prods, k) # 0 THEN prods ELSE Append(prods, k)

\* Variant: the product's latest row is overwritten when it has one.
recordAvailabilityOverwrites(h, productId, available, price, t) ==
    IF \E i \in 1..Len(h) : h[i].product_id = productId
    THEN LET last == CHOOSE i \in 1..Len(h) :
                        /\ h[i].product_id = productId
                        /\ \A j \in 1..Len(h) : h[j].product_id = productId => j <= i
         IN  [h EXCEPT ![last] = [id |-> last, product_id |-> productId,
                                  available |-> available, price |-> price,
                                  checked_at |-> t]]
    ELSE Append(h, [id |-> Len(h) + 1, product_id |-> productId,
                    available |-> available, price |-> price, checked_at |-> t])

\* Database.recordAvailability: INSERT with checked_at = CURRENT_TIMESTAMP.
recordAvailability(h, productId, available, price, t) ==
    Append(h, [id |-> Len(h) + 1, product_id |-> productId,
               available |-> available, price |-> price, checked_at |-> t])

RecordsOf(h, productId) == {i \in 1..Len(h) : h[i].product_id = productId}

\* The sequences a query can return for the row set S under
\* ORDER BY checked_at DESC: rows with equal checked_at come in any order.
OrderByCheckedAtDesc(S) ==
    {s \in [1..Cardinality(S) -> S] :
        /\ \A i, j \in 1..Cardinality(S) : i # j => s[i] # s[j]
        /\ \A i, j \in 1..Cardinality(S) :
              i < j => s[i].checked_at >= s[j].checked_at}

\* Variant: current_price taken from the product's oldest history row.
AvailableRowsOldestPrice(prods, h) ==
    {[id |-> p, key |-> prods[p],
      current_price |-> h[CHOOSE i \in RecordsOf(h, p) :
                            \A j \in RecordsOf(h, p) : i <= j].price,
      checked_at |-> h[Max(RecordsOf(h, p))].checked_at] :
        p \in {q \in 1..Len(prods) :
                 /\ RecordsOf(h, q) # {}
                 /\ h[Max(RecordsOf(h, q))].available}}

\* Database.getAvailableProducts: products whose MAX(id) history row has
\* available = 1, with that row's price as current_price.
AvailableRows(prods, h) ==
    {[id |-> p, key |-> prods[p],
      current_price |-> h[Max(RecordsOf(h, p))].price,
      checked_at |-> h[Max(RecordsOf(h, p))].checked_at] :
        p \in {q \in 1..Len(prods) :
                 /\ RecordsOf(h, q) # {}
                 /\ h[Max(RecordsOf(h, q))].available}}

\* Variant: every product that has a history row is listed, whatever its
\* newest row says.
getAvailableProductsAnyState(prods, h) ==
    OrderByCheckedAtDesc(
        {[id |-> p, key |-> prods[p],
          current_price |-> h[Max(RecordsOf(h, p))].price,
          checked_at |-> h[Max(RecordsOf(h, p))].checked_at] :
            p \in {q \in 1..Len(prods) : RecordsOf(h, q) # {}}})

getAvailableProducts(prods, h) == OrderByCheckedAtDesc(AvailableRows(prods, h))

\* Database.getProductHistory: the rows of the product of the last `days`.
getProductHistory(h, productId, days, t) ==
    {i \in RecordsOf(h, productId) : h[i].checked_at >= t - days * DaySecs}

\* Database.recordNotificationSent
recordNotificationSent(sent, productId, notificationType, t) ==
    Append(sent, [product_id |-> productId,
                  notification_type |-> notificationType, sent_at |-> t])

\* Variant: the notification type is not part of the WHERE clause.
wasNotificationSentRecentlyAnyType(sent, productId, notificationType, hoursAgo, t) ==
    Cardinality({i \in 1..Len(sent) :
                   /\ sent[i].product_id = productId
                   /\ sent[i].sent_at >= t - hoursAgo * HourSecs}) > 0

\* Database.wasNotificationSentRecently
wasNotificationSentRecently(sent, productId, notificationType, hoursAgo, t) ==
    Cardinality({i \in 1..Len(sent) :
                   /\ sent[i].product_id = productId
                   /\ sent[i].notification_type = notificationType
                   /\ sent[i].sent_at >= t - hoursAgo * HourSecs}) > 0

\* Variant: the two oldest rows, oldest first (ORDER BY checked_at ASC).
RecentHistoryOldestFirst(h, productId) ==
    LET S == {h[i] : i \in RecordsOf(h, productId)}
    IN  {[k \in 1..(IF Len(s) < 2 THEN Len(s) ELSE 2) |-> s[Len(s) + 1 - k]] :
            s \in OrderByCheckedAtDesc(S)}

\* The first query of getProductAvailabilityChange:
\* ORDER BY checked_at DESC LIMIT 2, every result the ordering allows.
RecentHistory(h, productId) ==
    LET S == {h[i] : i \in RecordsOf(h, productId)}
    IN  {SubSeq(s, 1, IF Len(s) < 2 THEN Len(s) ELSE 2) :
            s \in OrderByCheckedAtDesc(S)}

\* Variant: a single unavailable row is not reported as a change.
ClassifyChangeOnlyAvailableFirst(recentHistory) ==
    IF Len(recentHistory) < 2
    THEN [isNewlyAvailable |-> Len(recentHistory) > 0 /\ recentHistory[1].available,
          isNewlyUnavailable |-> FALSE,
          isStateChange |-> Len(recentHistory) = 1]
    ELSE [isNewlyAvailable |-> recentHistory[1].available /\ ~recentHistory[2].available,
          isNewlyUnavailable |-> ~recentHistory[1].available /\ recentHistory[2].available,
          isStateChange |-> recentHistory[1].available # recentHistory[2].available]

\* The classification getProductAvailabilityChange makes of those rows.
ClassifyChange(recentHistory) ==
    IF Len(recentHistory) < 2
    THEN [isNewlyAvailable |-> Len(recentHistory) > 0 /\ recentHistory[1].available,
          isNewlyUnavailable |-> Len(recentHistory) > 0 /\ ~recentHistory[1].available,
          isStateChange |-> Len(recentHistory) = 1]
    ELSE [isNewlyAvailable |-> recentHistory[1].available /\ ~recentHistory[2].available,
          isNewlyUnavailable |-> ~recentHistory[1].available /\ recentHistory[2].available,
          isStateChange |-> recentHistory[1].available # recentHistory[2].available]

getProductAvailabilityChange(h, productId) ==
    {ClassifyChange(r) : r \in RecentHistory(h, productId)}

\* ------------------------------------------------- favorites (legacy path)
\* monitor.js 182-187: some term of the favorite occurs in the name.
favoriteMatches(favorite, name) ==
    \E i \in 1..Len(favorite.terms) :
        includes(toLowerCase(name), toLowerCase(favorite.terms[i]))

\* monitor.js 191-204: the favorite's organic and size filters.
shouldNotify(favorite, name, organic) ==
    /\ ~(favorite.organic_only /\ ~organic)
    /\ ~(/\ favorite.size_preference # "both"
          /\ extractSizeFromName(name) # "null"
          /\ extractSizeFromName(name) # favorite.size_preference)

\* The favorite at which the loop over getFavorites() breaks, 0 if none.
FirstMatchingFavorite(name) ==
    LET M == {f \in 1..Len(Favorites) : favoriteMatches(Favorites[f], name)}
    IN  IF M = {} THEN 0 ELSE CHOOSE f \in M : \A g \in M : f <= g

matchedTerms(favorite, name) ==
    LET Hit(term) == includes(toLowerCase(name), toLowerCase(term))
    IN  SelectSeq(favorite.terms, Hit)

\* Variant: the sizes stay in arrival order.
SortSizesKeepsOrder(sizes) == sizes

\* Array.sort with the comparator of monitor.js 240-244, on the arrays it is
\* applied to (distinct tokens out of "250g" and "1kg").
SortSizes(sizes) ==
    IF Len(sizes) = 2 /\ sizes[1] = "1kg" /\ sizes[2] = "250g"
    THEN <<"250g", "1kg">>
    ELSE sizes

\* monitor.js 208-253: a newly available favorite joins the candidate of
\* the same base name and favorite, or becomes a candidate of its own.
\* The field merged is not in the code: it keeps the listings that went
\* into the candidate.
AddNewlyAvailable(list, obs, productId, favorite) ==
    LET name == Catalogue[obs.key].name
        baseName == getBaseProductName(name)
        currentSize == extractSizeFromName(name)
        E == {i \in 1..Len(list) :
                /\ getBaseProductName(Catalogue[list[i].product.key].name) = baseName
                /\ list[i].favoriteName = favorite.name}
        entry == [size |-> currentSize, price |-> obs.price, key |-> obs.key]
    IN  IF E = {}
        THEN Append(list,
                [product |-> [id |-> productId, key |-> obs.key, current_price |-> obs.price],
                 favoriteName |-> favorite.name,
                 matchedTerms |-> matchedTerms(favorite, name),
                 baseName |-> baseName,
                 availableSizes |-> IF currentSize # "null" THEN <<currentSize>> ELSE <<>>,
                 sizeData |-> IF currentSize # "null" THEN {entry} ELSE {},
                 stateChange |-> "newly_available",
                 merged |-> {obs.key}])
        ELSE LET i == CHOOSE x \in E : \A y \in E : x <= y
             IN  IF currentSize # "null" /\ currentSize \notin Range(list[i].availableSizes)
                 THEN [list EXCEPT
                         ![i].availableSizes = SortSizes(Append(@, currentSize)),
                         ![i].sizeData = {e \in @ : e.size # currentSize} \cup {entry},
                         ![i].merged = @ \cup {obs.key}]
                 ELSE [list EXCEPT ![i].merged = @ \cup {obs.key}]

UnavailableCandidate(key, productId, price, favorite) ==
    [product |-> [id |-> productId, key |-> key, current_price |-> price],
     favoriteName |-> favorite.name,
     matchedTerms |-> matchedTerms(favorite, Catalogue[key].name),
     stateChange |-> "newly_unavailable"]

\* monitor.js 175-278: what one scraped product adds to the results.
MatchScraped(res, prefs, obs, productId, change) ==
    LET data == Catalogue[obs.key]
        f == FirstMatchingFavorite(data.name)
    IN  IF prefs \/ f = 0 THEN res
        ELSE IF ~shouldNotify(Favorites[f], data.name, data.organic) THEN res
        ELSE LET r1 == IF change.isNewlyAvailable
                       THEN [res EXCEPT !.newlyAvailableFavorites =
                               AddNewlyAvailable(@, obs, productId, Favorites[f])]
                       ELSE res
             IN  IF change.isNewlyUnavailable
                 THEN [r1 EXCEPT !.newlyUnavailableFavorites =
                         Append(@, UnavailableCandidate(obs.key, productId, obs.price, Favorites[f]))]
                 ELSE r1

\* monitor.js 304-355: what a product missing from the scrape adds.
MatchMissing(res, prefs, row, change) ==
    LET data == Catalogue[row.key]
        f == FirstMatchingFavorite(data.name)
    IN  IF prefs \/ f = 0 \/ ~change.isNewlyUnavailable THEN res
        ELSE IF ~shouldNotify(Favorites[f], data.name, data.organic) THEN res
        ELSE [res EXCEPT !.newlyUnavailableFavorites =
                Append(@, UnavailableCandidate(row.key, row.id, row.current_price, Favorites[f]))]

\* ------------------------------------------------- AI tags, product groups
\* AITagger._getEmptyTags (ai-tagger.js 172-187): the fallback bag; a null
\* or empty field is the empty string here (both are falsy).
EmptyTags ==
    [country_of_origin |-> <<>>, region |-> <<>>, variety |-> <<>>,
     process_method |-> <<>>, roast_level |-> <<>>, is_decaf |-> FALSE]

\* The bags the tagger can return for a product: the fallback bag, and
\* normalised answers of the model that name a country, in two spellings,
\* alone or with a region, a variety or the decaf flag.
TagBags ==
    {EmptyTags,
     [EmptyTags EXCEPT !.country_of_origin = <<"P", "e", "r", "u">>],
     [EmptyTags EXCEPT !.country_of_origin = <<"P", "E", "R", "U">>],
     [EmptyTags EXCEPT !.country_of_origin = <<"P", "e", "r", "u">>,
                       !.region = <<"B", "o", "u", "r", "b", "o", "n">>],
     [EmptyTags EXCEPT !.country_of_origin = <<"P", "e", "r", "u">>,
                       !.variety = <<"B", "o", "u", "r", "b", "o", "n">>],
     [EmptyTags EXCEPT !.country_of_origin = <<"P", "e", "r", "u">>,
                       !.is_decaf = TRUE]}

\* AITagger._processBatch for a batch of k products (ai-tagger.js 69-98):
\* one bag per entry of the answer, which may hold fewer entries than were
\* asked for; on an error other than quota every product gets the fallback
\* bag.
TagResults(k) == UNION {[1..n -> TagBags] : n \in 0..k}

\* The roastery names as strings of characters.
roasteryChars(roastery) ==
    IF roastery = "R1" THEN <<"R", "1">> ELSE <<"R", "2">>

\* Array.prototype.join(':')
JoinColon(parts) ==
    LET RECURSIVE join(_)
        join(n) == IF n = 0 THEN <<>>
                   ELSE IF n = 1 THEN parts[1]
                   ELSE join(n - 1) \o <<":">> \o parts[n]
    IN  join(Len(parts))

\* generateProductGroupId (product-grouping.js 7-28); aiTags is <<>> for
\* a missing bag and <<bag>> otherwise. The 16 hex digits of the SHA-256
\* digest stand for the string that is hashed (no collisions).
generateProductGroupId(aiTags, roasteryName) ==
    IF aiTags = <<>> THEN NoGroup
    ELSE LET t == aiTags[1]
             parts == <<roasteryName,
                        IF t.country_of_origin # <<>> THEN t.country_of_origin
                        ELSE <<"u", "n", "k", "n", "o", "w", "n">>,
                        t.region, t.variety, t.process_method, t.roast_level,
                        IF t.is_decaf THEN <<"d", "e", "c", "a", "f">> ELSE <<>> >>
             truthy == SelectSeq(parts, LAMBDA x : x # <<>>)
         IN  toLowerCase(JoinColon(truthy))

\* monitor.js 562-584: the new products are grouped by the group id their
\* object carries (the first i of the list got one from the tagging loop)
\* or else by their own id; a group is listed when its first member is in
\* results.newProducts. The ids of the listed groups' first members.
groupedProducts(res, i) ==
    LET list == IF res.allNewProducts # <<>> THEN res.allNewProducts
                ELSE res.newProducts
        groupIdOf(n) ==
            IF n <= i /\ n <= Len(tags)
            THEN generateProductGroupId(<<tags[n]>>,
                     roasteryChars(Catalogue[products[list[n]]].roastery_name))
            ELSE NoGroup
        sameGroup(m, n) ==
            IF groupIdOf(m) # NoGroup /\ groupIdOf(n) # NoGroup
            THEN groupIdOf(m) = groupIdOf(n)
            ELSE groupIdOf(m) = NoGroup /\ groupIdOf(n) = NoGroup
                 /\ list[m] = list[n]
    IN  {list[n] : n \in {k \in 1..Len(list) :
                             /\ \A m \in 1..(k - 1) : ~sameGroup(m, k)
                             /\ list[k] \in Range(res.newProducts)}}

\* --------------------------------------------------- sizes in product names
\* \w of a regular expression.
IsWordChar(c) ==
    \/ IsDigit(c)
    \/ c = "_"
    \/ LowerChar(c) \in {"a", "b", "c", "d", "e", "f", "g", "h", "i", "j", "k",
                         "l", "m", "n", "o", "p", "q", "r", "s", "t", "u", "v",
                         "w", "x", "y", "z"}

\* /(\d+)\s*<unit>\b/i matches at position i with the digits i..m-1: the
\* digits, any spaces, the unit, and then no word character.
SizeMatchAt(s, i, m, unit) ==
    /\ Digits(s, i, m - 1)
    /\ \E u \in m..Len(s) :
          /\ Spaces(s, m, u - 1)
          /\ UnitAt(s, u, unit)
          /\ (u + Len(unit) > Len(s) \/ ~IsWordChar(s[u + Len(unit)]))

\* String.match: the leftmost position the pattern matches at, 0 if none.
SizeMatchStart(s, unit) ==
    LET M == {i \in 1..Len(s) : \E m \in (i + 1)..(Len(s) + 1) : SizeMatchAt(s, i, m, unit)}
    IN  IF M = {} THEN 0 ELSE CHOOSE i \in M : \A j \in M : i <= j

\* The text of the capture group of the match starting at i.
SizeMatchDigits(s, i, unit) ==
    SubSeq(s, i, (CHOOSE m \in (i + 1)..(Len(s) + 1) : SizeMatchAt(s, i, m, unit)) - 1)

DigitValue(c) ==
    CASE c = "0" -> 0 [] c = "1" -> 1 [] c = "2" -> 2 [] c = "3" -> 3
      [] c = "4" -> 4 [] c = "5" -> 5 [] c = "6" -> 6 [] c = "7" -> 7
      [] c = "8" -> 8 [] c = "9" -> 9

DigitChar(d) == <<"0", "1", "2", "3", "4", "5", "6", "7", "8", "9">>[d + 1]

\* parseInt of a string of decimal digits.
RECURSIVE parseInt(_)
parseInt(ds) ==
    IF Len(ds) = 0 THEN 0
    ELSE 10 * parseInt(SubSeq(ds, 1, Len(ds) - 1)) + DigitValue(ds[Len(ds)])

\* The decimal digits of a natural number, as a template literal prints it.
RECURSIVE NumberToString(_)
NumberToString(n) ==
    IF n < 10 THEN <<DigitChar(n)>>
    ELSE NumberToString(n \div 10) \o <<DigitChar(n % 10)>>

\* The fraction thousandths/1000 as printed: three digits without the
\* trailing zeros.
FractionToString(thousandths) ==
    LET d == <<DigitChar(thousandths \div 100), DigitChar((thousandths \div 10) % 10),
               DigitChar(thousandths % 10)>>
    IN  IF thousandths % 100 = 0 THEN SubSeq(d, 1, 1)
        ELSE IF thousandths % 10 = 0 THEN SubSeq(d, 1, 2)
        ELSE d

\* Variant: the amount is printed in grams whatever its size.
formatSizeInGrams(amount) == NumberToString(amount) \o <<"g">>

\* product-grouping.js 53-57: the standard format of an amount of grams.
formatSize(amount) ==
    IF amount >= 1000
    THEN NumberToString(amount \div 1000)
           \o (IF amount % 1000 = 0 THEN <<>>
               ELSE <<".">> \o FractionToString(amount % 1000))
           \o <<"k", "g">>
    ELSE NumberToString(amount) \o <<"g">>

\* product-grouping.js 36-40: the units of the three patterns, in the
\* order they are tried.
sizePatterns == << <<"g">>, <<"k", "g">>, <<"g", "r", "a", "m">> >>

\* extractSize (product-grouping.js 34-62); null is <<>>.
extractSize(name) ==
    LET hits == {p \in 1..Len(sizePatterns) : SizeMatchStart(name, sizePatterns[p]) # 0}
    IN  IF hits = {} THEN <<>>
        ELSE LET p == CHOOSE x \in hits : \A y \in hits : x <= y
                 unit == sizePatterns[p]
                 amount == parseInt(SizeMatchDigits(name, SizeMatchStart(name, unit), unit))
             IN  formatSize(IF unit = <<"k", "g">> THEN amount * 1000 ELSE amount)

\* The names extractSize is called with: a prefix, digits, a space or
\* none, a unit or none, and a tail.
SizeNames ==
    {pre \o num \o sp \o unit \o post :
        pre \in {<<"X">>, <<"X", " ">>},
        num \in {<<>>, <<"2", "5", "0">>, <<"1">>, <<"1", "0", "0", "0">>,
                 <<"1", "5", "0", "0">>, <<"0", "5", "0", "0">>},
        sp \in {<<>>, <<" ">>},
        unit \in {<<>>, <<"g">>, <<"k", "g">>, <<"K", "G">>,
                  <<"g", "r", "a", "m">>, <<"g", "r">>},
        post \in {<<>>, <<" ", "1", "k", "g">>, <<"s">>, <<"-">>}}

\* ------------------------------------------------------ preference scoring
\* The JavaScript values met in attribute bags and in patterns: undefined
\* (the key is absent), null, a boolean, a string.
Undefined == [t |-> "undefined", b |-> FALSE, s |-> <<>>]

Null == [t |-> "null", b |-> FALSE, s |-> <<>>]

Bool(x) == [t |-> "boolean", b |-> x, s |-> <<>>]

Str(x) == [t |-> "string", b |-> FALSE, s |-> x]

\* value === undefined || value === null
IsNullish(value) == value.t \in {"undefined", "null"}

\* !!value
Truthy(value) ==
    IF value.t = "boolean" THEN value.b
    ELSE IF value.t = "string" THEN value.s # <<>>
    ELSE FALSE

\* String(value)
String(value) ==
    IF value.t = "string" THEN value.s
    ELSE IF value.t = "boolean"
    THEN (IF value.b THEN <<"t", "r", "u", "e">> ELSE <<"f", "a", "l", "s", "e">>)
    ELSE IF value.t = "null" THEN <<"n", "u", "l", "l">>
    ELSE <<"u", "n", "d", "e", "f", "i", "n", "e", "d">>

\* matchesAll (preferences.js 150-171); a pattern is the set of its
\* entries, the empty set for a missing or empty pattern.
matchesAll(a, pattern) ==
    \A e \in pattern :
        LET value == a[e.key]
            expected == e.expected
        IN  IF IsNullish(expected) THEN value.t = expected.t
            ELSE IF expected.t = "boolean" THEN Truthy(value) = expected.b
            ELSE (IF IsNullish(value) THEN <<>> ELSE toLowerCase(String(value)))
                    = toLowerCase(String(expected))

\* preferences.js 119-127: some constraint's when matches and its require
\* does not.
constraintFails(a, constraints) ==
    \E i \in 1..Len(constraints) :
        /\ matchesAll(a, constraints[i].when)
        /\ ~matchesAll(a, constraints[i].require)

\* preferences.js 135: the weight the value map has for the key, else 0.
weightOf(valueMap, key) ==
    IF \E w \in valueMap : w.key = key
    THEN (CHOOSE w \in valueMap : w.key = key).weight
    ELSE 0

\* preferences.js 131-135: what one dimension adds for the bag.
dimensionWeight(a, dim) ==
    IF IsNullish(a[dim.name]) THEN 0
    ELSE weightOf(dim.valueMap, toLowerCase(String(a[dim.name])))

\* preferences.js 130-141: the running total after the first n dimensions.
RECURSIVE sumDimensions(_, _, _)
sumDimensions(a, dimensions, n) ==
    IF n = 0 THEN 0
    ELSE sumDimensions(a, dimensions, n - 1) + dimensionWeight(a, dimensions[n])

\* preferences.js 137-140: the dimensions that left a trace in reasons.
reasonsOf(a, dimensions) ==
    SelectSeq([n \in 1..Len(dimensions) |->
                  <<dimensions[n].name, dimensionWeight(a, dimensions[n])>>],
              LAMBDA r : r[2] # 0)

\* Variant: an unspecified min_score counts as 1.
minScoreOfOne(prefs) == IF prefs.min_score # <<>> THEN prefs.min_score[1] ELSE 1

\* preferences.js 116: min_score when it is a number, else 0; an
\* unspecified field is <<>>, a number n is <<n>>.
minScoreOf(prefs) == IF prefs.min_score # <<>> THEN prefs.min_score[1] ELSE 0

\* Variant: only the first constraint is evaluated.
scoreProductFirstConstraintOnly(a, prefs) ==
    IF prefs.enabled = <<FALSE>>
    THEN [score |-> 0, accepted |-> FALSE, reasons |-> <<>>, why |-> "preferences_disabled"]
    ELSE IF constraintFails(a, IF Len(prefs.constraints) > 0
                                THEN <<prefs.constraints[1]>> ELSE <<>>)
    THEN [score |-> 0, accepted |-> FALSE, reasons |-> <<>>, why |-> "constraint_failed"]
    ELSE [score |-> sumDimensions(a, prefs.dimensions, Len(prefs.dimensions)),
          accepted |-> sumDimensions(a, prefs.dimensions, Len(prefs.dimensions))
                          >= minScoreOf(prefs),
          reasons |-> reasonsOf(a, prefs.dimensions), why |-> "scored"]

\* scoreProduct (preferences.js 106-145), called with a bag and a
\* preferences object; enabled is <<>> when unspecified. The field why
\* tells the two fixed reasons from the trace of the dimensions.
scoreProduct(a, prefs) ==
    IF prefs.enabled = <<FALSE>>
    THEN [score |-> 0, accepted |-> FALSE, reasons |-> <<>>, why |-> "preferences_disabled"]
    ELSE IF constraintFails(a, prefs.constraints)
    THEN [score |-> 0, accepted |-> FALSE, reasons |-> <<>>, why |-> "constraint_failed"]
    ELSE [score |-> sumDimensions(a, prefs.dimensions, Len(prefs.dimensions)),
          accepted |-> sumDimensions(a, prefs.dimensions, Len(prefs.dimensions))
                          >= minScoreOf(prefs),
          reasons |-> reasonsOf(a, prefs.dimensions), why |-> "scored"]

\* The bags scoreProduct is called with here: organic absent or a boolean,
\* decaf a boolean, roast null or a string.
AttributeBags ==
    [organic : {Undefined, Bool(TRUE), Bool(FALSE)},
     decaf : {Bool(TRUE), Bool(FALSE)},
     roast : {Null, Str(<<"d", "a", "r", "k">>), Str(<<"M", "e", "d", "i", "u", "m">>)}]

\* Constraints of the configuration: decaf must be medium roast; everything
\* must be organic (empty when); dark roast, nothing required (empty
\* require).
DecafIsMedium ==
    [when |-> {[key |-> "decaf", expected |-> Bool(TRUE)]},
     require |-> {[key |-> "roast", expected |-> Str(<<"m", "e", "d", "i", "u", "m">>)]}]

AllOrganic ==
    [when |-> {}, require |-> {[key |-> "organic", expected |-> Bool(TRUE)]}]

DarkAnything ==
    [when |-> {[key |-> "roast", expected |-> Str(<<"D", "A", "R", "K">>)]},
     require |-> {}]

ConstraintLists ==
    {<<>>, <<DecafIsMedium>>, <<AllOrganic>>, <<DarkAnything>>,
     <<DarkAnything, DecafIsMedium>>, <<DecafIsMedium, AllOrganic>>}

\* Dimensions of the configuration, as [name, valueMap] in key order.
OrganicThree ==
    [name |-> "organic", valueMap |-> {[key |-> <<"t", "r", "u", "e">>, weight |-> 3]}]

OrganicBoth ==
    [name |-> "organic",
     valueMap |-> {[key |-> <<"t", "r", "u", "e">>, weight |-> 3],
                   [key |-> <<"f", "a", "l", "s", "e">>, weight |-> -2]}]

RoastWeights ==
    [name |-> "roast",
     valueMap |-> {[key |-> <<"m", "e", "d", "i", "u", "m">>, weight |-> 2],
                   [key |-> <<"d", "a", "r", "k">>, weight |-> -1]}]

RoastCapitalKey ==
    [name |-> "roast", valueMap |-> {[key |-> <<"D", "a", "r", "k">>, weight |-> 5]}]

DimensionLists ==
    {<<>>, <<OrganicThree>>, <<OrganicBoth, RoastWeights>>, <<RoastCapitalKey>>}

PreferenceConfigs ==
    [enabled : {<<>>, <<TRUE>>, <<FALSE>>},
     dimensions : DimensionLists,
     constraints : ConstraintLists,
     min_score : {<<>>, <<3>>, <<-1>>}]

\* ------------------------------------------------------------ check cycle
\* config.js 381-401: the shop URLs in configuration order, each carrying
\* its roastery (the first roastery lists two pages, the second one).
ShopUrls == <<"R1", "R1", "R2">>

\* What one scrape of a page of the roastery can return.
Listings(roastery) ==
    UNION {[1..n -> {o \in Observations :
                       Catalogue[o.key].roastery_name = roastery}] :
           n \in 0..MaxBatch}

scrapedProductKeys(b) == {b[i].key : i \in 1..Len(b)}

\* Variant: the guard never finds a check in progress.
NeverInProgress == FALSE

\* The guard of checkProducts (monitor.js 82).
AlreadyInProgress == isRunning

\* Config.getPreferencesConfig, read at monitor.js 142 and again at 504:
\* the preferences of the configuration loaded at construction.
getPreferencesConfig == [enabled |-> preferencesEnabled]

\* sendNotifications awaits only where it has something to send: the
\* position of the next await after the tagging block, after the
\* newly-available block, after the newly-unavailable block and after the
\* preference block. res is the results object and i the number of
\* products the tagging loop has gone through.
AfterPreferences(res, i) ==
    IF /\ ~getPreferencesConfig.enabled
       /\ Len(res.newProducts) > 0
       /\ Len(res.newProducts) <= 5
       /\ groupedProducts(res, i) # {}
    THEN "notifyNew" ELSE "finally"

AfterUnavailable(res, i) ==
    IF getPreferencesConfig.enabled /\ Len(res.preferenceMatches) > 0
    THEN "notifyPref" ELSE AfterPreferences(res, i)

AfterAvailable(res, i) ==
    IF ~getPreferencesConfig.enabled /\ Len(res.newlyUnavailableFavorites) > 0
    THEN "notifyUnavail" ELSE AfterUnavailable(res, i)

AfterMissing(res, i) ==
    IF ~getPreferencesConfig.enabled /\ Len(res.newlyAvailableFavorites) > 0
    THEN "notifyAvail" ELSE AfterAvailable(res, i)

\* monitor.js 365: the tagging block is entered when the tagger is enabled
\* and the cycle has new products.
AfterLoops(res) ==
    IF aiEnabled /\ Len(res.newProducts) > 0
    THEN "tag" ELSE AfterMissing(res, 0)

\* The store is a file that outlives the process: at start-up it is empty,
\* or holds what an earlier run left (here one Kenya listing at 10).
Stores ==
    {[products |-> <<>>, product_group_id |-> <<>>, history |-> <<>>],
     [products |-> <<3>>, product_group_id |-> <<NoGroup>>,
      history |-> <<[id |-> 1, product_id |-> 1, available |-> TRUE,
                     price |-> 10, checked_at |-> 0]>>]}

\* Rows written since start-up (every cycle starts after time 0).
Written(h) == Cardinality({i \in 1..Len(h) : h[i].checked_at > 0})

\* The monitor after construction and initialize(): idle, on one of the
\* stores, with or without an API key for the tagger; earlier is the
\* number of checkProducts invocations already counted.
StartUp(stores, ai, earlier) ==
    /\ isRunning = FALSE
    /\ pc = "idle"
    /\ now = 0
    /\ preferencesEnabled \in BOOLEAN
    /\ aiEnabled = ai
    /\ \E store \in stores :
          /\ products = store.products
          /\ product_group_id = store.product_group_id
          /\ history = store.history
    /\ notifications_sent = <<>>
    /\ batch = <<>>
    /\ urlIdx = 0
    /\ idx = 0
    /\ failedAt = {}
    /\ changes = <<>>
    /\ missing = <<>>
    /\ results = EmptyResults
    /\ notifyLog = <<>>
    /\ tags = <<>>
    /\ tagIdx = 0
    /\ productGroupsSeen = {}
    /\ trulyNewProducts = <<>>
    /\ newVariants = <<>>
    /\ tagResults = <<>>
    /\ tagOffset = 0
    /\ invocations = earlier
    /\ cycles = 0
    /\ startHist = 0
    /\ startSent = 0
    /\ outcome = "none"

\* No utility function has been called; the preferences of the
\* configuration hold the flag and nothing to score with.
NoCalls ==
    /\ attrs = [organic |-> Undefined, decaf |-> Undefined, roast |-> Undefined]
    /\ preferences = [enabled |-> <<preferencesEnabled>>, dimensions |-> <<>>,
                      constraints |-> <<>>, min_score |-> <<>>]
    /\ verdict = <<>>
    /\ productName = <<>>
    /\ size = <<>>

\* No API key is configured: the tagging block (monitor.js 365) is skipped.
Init == StartUp(Stores, FALSE, 0) /\ NoCalls

\* checkProducts is invoked (a schedule fire or the check command): it
\* returns at once when a check is in progress, else it takes the flag.
checkProducts ==
    /\ invocations < MaxInvocations
    /\ invocations' = invocations + 1
    /\ IF AlreadyInProgress
       THEN UNCHANGED <<callVars, changes, isRunning, pc, now, configVars, dbVars,
                        cycleVars, failedAt, cycles, startHist, startSent,
                        outcome>>
       ELSE /\ cycles' = cycles + 1
            /\ isRunning' = TRUE
            /\ pc' = "scrape"
            /\ \E d \in StartSteps : now' = now + d
            /\ startHist' = Len(history)
            /\ startSent' = Len(notifications_sent)
            /\ outcome' = "running"
            /\ batch' = <<>>
            /\ urlIdx' = 1
            /\ idx' = 0
            /\ missing' = <<>>
            /\ results' = EmptyResults
            /\ notifyLog' = <<>>
            /\ tags' = <<>>
            /\ tagIdx' = 0
            /\ productGroupsSeen' = {}
            /\ trulyNewProducts' = <<>>
            /\ newVariants' = <<>>
            /\ tagResults' = <<>>
            /\ tagOffset' = 0
            /\ UNCHANGED <<callVars, changes, configVars, dbVars, failedAt>>

\* monitor.js 100-131: one shop URL is scraped and its listings appended
\* to allScrapedProducts; after the last URL an empty batch ends the cycle.
ScrapeProducts ==
    /\ pc = "scrape"
    /\ urlIdx <= Len(ShopUrls)
    /\ \E scrapedProducts \in Listings(ShopUrls[urlIdx]) :
          LET b == batch \o scrapedProducts
          IN  /\ Len(b) <= MaxBatch
              /\ Written(history) + Len(b)
                   + Cardinality({r \in AvailableRows(products, history) :
                                    r.key \notin scrapedProductKeys(b)}) <= MaxHist
              /\ batch' = b
              /\ IF urlIdx < Len(ShopUrls)
                 THEN pc' = pc /\ outcome' = outcome /\ idx' = idx
                 ELSE IF Len(b) = 0
                      THEN pc' = "finally" /\ outcome' = "empty" /\ idx' = idx
                      ELSE pc' = "process" /\ outcome' = outcome /\ idx' = 1
    /\ urlIdx' = urlIdx + 1
    /\ UNCHANGED <<callVars, changes, isRunning, now, configVars, dbVars, failedAt,
                   missing, results, notifyLog, invocations, cycles,
                   startHist, startSent, tagVars>>

\* monitor.js 95, 103 and 482: scraper.init or scraper.scrapeProducts
\* (analytics.js 298-301 logs and re-throws) throws inside the try block;
\* nothing around the call catches, so control goes to the catch of
\* checkProducts and allScrapedProducts, local to the try block, is lost.
ScrapeFails ==
    /\ pc = "scrape"
    /\ pc' = "catch"
    /\ outcome' = "failed"
    /\ batch' = <<>>
    /\ UNCHANGED <<callVars, changes, isRunning, now, configVars, dbVars, urlIdx, idx,
                   failedAt, missing, results, notifyLog, invocations,
                   cycles, startHist, startSent, tagVars>>

\* monitor.js 482-493: the best-effort error notification.
NotifyError ==
    /\ pc = "catch"
    /\ \E ok \in BOOLEAN :
          notifyLog' = Append(notifyLog, [type |-> "error", block |-> "error", products |-> {}, ok |-> ok])
    /\ pc' = "finally"
    /\ UNCHANGED <<callVars, changes, isRunning, now, configVars, dbVars, batch, urlIdx,
                   idx, failedAt, missing, results, invocations, cycles, startHist,
                   startSent, outcome, tagVars>>

\* The log of the state changes getProductAvailabilityChange has reported
\* to the check cycles (monitor.js 173 and 303), which is not in the code:
\* the product, the cycle, the loop that asked, and what was reported. An
\* answer that reports no change leaves the log as it is.
Reported(log, productId, change, loop) ==
    IF change.isNewlyAvailable \/ change.isNewlyUnavailable
    THEN Append(log, [product_id |-> productId, cycle |-> cycles, loop |-> loop,
                      available |-> change.isNewlyAvailable])
    ELSE log

\* monitor.js 151-282: one iteration of the loop over allScrapedProducts.
ProcessProduct ==
    /\ pc = "process"
    /\ idx <= Len(batch)
    /\ \E dt \in (IF idx > 1 /\ batch[idx - 1].key = batch[idx].key
                  THEN StmtSteps ELSE {0}) :
        LET obs == batch[idx]
            t == now + dt
            prods2 == saveProduct(products, obs.key)
            productId == ProductId(prods2, obs.key)
            h2 == recordAvailability(history, productId, obs.available, obs.price, t)
            isNew == Cardinality(getProductHistory(h2, productId, HistoryDays, t)) = 1
            res1 == IF isNew
                    THEN [results EXCEPT !.newProducts = Append(@, productId)]
                    ELSE results
        IN  /\ now' = t
            /\ products' = prods2
            /\ product_group_id' = IF Len(prods2) > Len(products)
                                   THEN Append(product_group_id, NoGroup)
                                   ELSE product_group_id
            /\ history' = h2
            /\ \E change \in getProductAvailabilityChange(h2, productId) :
                  /\ results' = MatchScraped(res1, preferencesEnabled, obs, productId, change)
                  /\ changes' = Reported(changes, productId, change, "scraped")
    /\ idx' = idx + 1
    /\ pc' = IF idx = Len(batch) THEN "missing" ELSE "process"
    /\ UNCHANGED <<callVars, isRunning, configVars, notifications_sent, batch,
                   urlIdx, failedAt, missing, notifyLog, invocations, cycles,
                   startHist, startSent, outcome, tagVars>>

\* The awaited calls of one iteration, in order (monitor.js 154-176).
AwaitedCalls ==
    <<"saveProduct", "recordAvailability", "getProductHistory",
      "getProductAvailabilityChange", "getFavorites">>

\* Variant: a failure of an awaited call leaves the loop for the catch of
\* checkProducts.
ProcessProductAborts ==
    /\ pc = "process"
    /\ idx <= Len(batch)
    /\ Cardinality(failedAt) < MaxFaults
    /\ failedAt' = failedAt \cup {<<cycles, idx>>}
    /\ pc' = "catch"
    /\ outcome' = "failed"
    /\ UNCHANGED <<callVars, changes, isRunning, now, configVars, dbVars, batch, urlIdx,
                   idx, missing, results, notifyLog, invocations, cycles,
                   startHist, startSent, tagVars>>

\* monitor.js 152-281: an awaited call of the iteration rejects; what the
\* earlier calls of the iteration wrote stays, the catch of the iteration
\* logs the error and the loop goes on with the next product.
ProcessProductFails ==
    /\ pc = "process"
    /\ idx <= Len(batch)
    /\ Cardinality(failedAt) < MaxFaults
    /\ \E call \in 1..Len(AwaitedCalls) :
        \E dt \in (IF idx > 1 /\ batch[idx - 1].key = batch[idx].key
                    THEN StmtSteps ELSE {0}) :
        LET obs == batch[idx]
            t == now + dt
            prods2 == IF call > 1 THEN saveProduct(products, obs.key)
                      ELSE products
            productId == ProductId(prods2, obs.key)
            h2 == IF call > 2
                  THEN recordAvailability(history, productId, obs.available,
                                          obs.price, t)
                  ELSE history
            isNew == /\ call > 3
                     /\ Cardinality(getProductHistory(h2, productId,
                                                      HistoryDays, t)) = 1
        IN  /\ now' = IF call > 2 THEN t ELSE now
            /\ products' = prods2
            /\ product_group_id' = IF Len(prods2) > Len(products)
                                   THEN Append(product_group_id, NoGroup)
                                   ELSE product_group_id
            /\ history' = h2
            /\ results' = IF isNew
                          THEN [results EXCEPT !.newProducts = Append(@, productId)]
                          ELSE results
            /\ IF call > 4
               THEN \E change \in getProductAvailabilityChange(h2, productId) :
                       changes' = Reported(changes, productId, change, "scraped")
               ELSE changes' = changes
    /\ failedAt' = failedAt \cup {<<cycles, idx>>}
    /\ idx' = idx + 1
    /\ pc' = IF idx = Len(batch) THEN "missing" ELSE "process"
    /\ UNCHANGED <<callVars, isRunning, configVars, notifications_sent, batch,
                   urlIdx, missing, notifyLog, invocations, cycles,
                   startHist, startSent, outcome, tagVars>>

\* monitor.js 286-292: the previously available products are read; those
\* whose key was scraped in this cycle are passed over.
ReadPreviouslyAvailable ==
    /\ pc = "missing"
    /\ \E q \in getAvailableProducts(products, history) :
          LET NotScraped(product) == product.key \notin scrapedProductKeys(batch)
              todo == SelectSeq(q, NotScraped)
          IN  /\ missing' = todo
              /\ pc' = IF Len(todo) = 0 THEN AfterLoops(results) ELSE "markMissing"
    /\ UNCHANGED <<callVars, changes, isRunning, now, configVars, dbVars, batch, urlIdx,
                   idx, failedAt, results, notifyLog, invocations, cycles, startHist,
                   startSent, outcome, tagVars>>

\* monitor.js 293-356: a product missing from the scrape is recorded as
\* unavailable at its current price and matched against the favorites.
MarkMissing ==
    /\ pc = "markMissing"
    /\ Len(missing) > 0
    /\ LET product == Head(missing)
           h2 == recordAvailability(history, product.id, FALSE,
                                    product.current_price, now)
       IN  /\ history' = h2
           /\ \E change \in getProductAvailabilityChange(h2, product.id) :
                LET res == MatchMissing(results, preferencesEnabled, product, change)
                IN  /\ results' = res
                    /\ changes' = Reported(changes, product.id, change, "missing")
                    /\ pc' = IF Len(missing) = 1 THEN AfterLoops(res)
                             ELSE "markMissing"
    /\ missing' = Tail(missing)
    /\ UNCHANGED <<callVars, isRunning, now, configVars, products, product_group_id,
                   notifications_sent, batch, urlIdx, idx, failedAt,
                   notifyLog, invocations, cycles, startHist, startSent,
                   outcome, tagVars>>

\* monitor.js 368-374 and ai-tagger.js 57-66: tagProducts requests the
\* bags of the next batch of new products and appends the answer to its
\* results; after the last batch it returns them and the collections of
\* the tagging loop are created.
TagProducts ==
    /\ pc = "tag"
    /\ tagOffset < Len(results.newProducts)
    /\ LET last == IF tagOffset + batchSize < Len(results.newProducts)
                   THEN tagOffset + batchSize ELSE Len(results.newProducts)
       IN  \E batchResults \in TagResults(last - tagOffset) :
              /\ tagResults' = tagResults \o batchResults
              /\ IF last < Len(results.newProducts)
                 THEN /\ pc' = "tag"
                      /\ UNCHANGED tags
                 ELSE /\ pc' = "tagLoop"
                      /\ tags' = tagResults \o batchResults
    /\ tagOffset' = tagOffset + batchSize
    /\ tagIdx' = 0
    /\ productGroupsSeen' = {}
    /\ trulyNewProducts' = <<>>
    /\ newVariants' = <<>>
    /\ UNCHANGED <<callVars, changes, isRunning, now, configVars, dbVars, batch, urlIdx, idx,
                   failedAt, missing, results, notifyLog, invocations,
                   cycles, startHist, startSent, outcome>>

\* ai-tagger.js 90-93 and monitor.js 461-464: the request of a batch fails
\* with a quota or rate-limit error and _processBatch throws; tagProducts
\* does not catch, its results are dropped with it (tagResults keeps what
\* had been collected), and the catch of the tagging block logs the error:
\* the cycle goes on to the notifications with results as they were.
TagProductsFails ==
    /\ pc = "tag"
    /\ tagOffset < Len(results.newProducts)
    /\ pc' = AfterMissing(results, 0)
    /\ UNCHANGED <<callVars, changes, isRunning, now, configVars, dbVars, cycleVars, failedAt,
                   invocations, cycles, startHist, startSent, outcome>>

\* monitor.js 378-381 and database.js 415: the answer has no bag for this
\* product, saveAITags throws on reading a field of it before it writes,
\* and the catch of the tagging block ends the loop; results keeps the
\* full list of new products.
SaveAITagsThrows ==
    /\ pc = "tagLoop"
    /\ tagIdx + 1 > Len(tags)
    /\ pc' = AfterMissing(results, tagIdx)
    /\ UNCHANGED <<callVars, changes, isRunning, now, configVars, dbVars, cycleVars, failedAt,
                   invocations, cycles, startHist, startSent, outcome>>

\* Variant: the new products are scored whatever the flag says.
ScoresPreferencesAlways(newProducts) == Len(newProducts) > 0

\* monitor.js 424: the guard of the preference scoring.
ScoresPreferences(newProducts) ==
    preferencesEnabled /\ Len(newProducts) > 0

\* monitor.js 376-419: one iteration of the tagging loop; after the last
\* one results is rewritten (417-419).
TagOne ==
    /\ pc = "tagLoop"
    /\ tagIdx + 1 <= Len(tags)
    /\ LET i == tagIdx + 1
           product == results.newProducts[i]
           productGroupId ==
               generateProductGroupId(<<tags[i]>>,
                   roasteryChars(Catalogue[products[product]].roastery_name))
           groups2 == [product_group_id EXCEPT ![product] = productGroupId]
           existingGroup == \E j \in 1..Len(groups2) :
                               j # product /\ groups2[j] = productGroupId
           isVariant == /\ productGroupId # NoGroup
                        /\ (existingGroup \/ productGroupId \in productGroupsSeen)
           truly2 == IF isVariant THEN trulyNewProducts
                     ELSE Append(trulyNewProducts, product)
           variants2 == IF isVariant THEN Append(newVariants, product)
                        ELSE newVariants
           res2 == IF i = Len(results.newProducts)
                   THEN [results EXCEPT !.allNewProducts = results.newProducts,
                                        !.newProducts = truly2,
                                        !.newVariants = variants2]
                   ELSE results
       IN  /\ product_group_id' = groups2
           /\ trulyNewProducts' = truly2
           /\ newVariants' = variants2
           /\ productGroupsSeen' =
                 IF productGroupId # NoGroup /\ ~isVariant
                 THEN productGroupsSeen \cup {productGroupId}
                 ELSE productGroupsSeen
           /\ results' = res2
           /\ tagIdx' = i
           /\ pc' = IF i < Len(results.newProducts) THEN "tagLoop"
                    ELSE IF ScoresPreferences(truly2) THEN "score"
                    ELSE AfterMissing(res2, i)
    /\ UNCHANGED <<callVars, changes, isRunning, now, configVars, products, history,
                   notifications_sent, batch, urlIdx, idx, failedAt, missing,
                   notifyLog, tags, tagResults, tagOffset, invocations,
                   cycles, startHist, startSent, outcome>>

\* The orders in which the members of S can be listed.
Orders(S) == {q \in [1..Cardinality(S) -> S] : Range(q) = S}

\* monitor.js 424-460: the truly new products are scored against the
\* preferences; the accepted ones, in score order, become the preference
\* matches (which products are accepted, and their scores, are left open).
ScorePreferences ==
    /\ pc = "score"
    /\ \E accepted \in SUBSET Range(results.newProducts) :
       \E matches \in Orders(accepted) :
          /\ results' = [results EXCEPT !.preferenceMatches = matches]
          /\ pc' = AfterMissing(results', tagIdx)
    /\ UNCHANGED <<callVars, changes, isRunning, now, configVars, dbVars, batch, urlIdx, idx,
                   failedAt, missing, notifyLog, tagVars, invocations,
                   cycles, startHist, startSent, outcome>>

CandidateIds(list) == {list[i].product.id : i \in 1..Len(list)}

\* The loop of recordNotificationSent calls over the candidates.
RecordAll(sent, list, notificationType, t) ==
    LET RECURSIVE rec(_)
        rec(n) == IF n = 0 THEN sent
                  ELSE recordNotificationSent(rec(n - 1), list[n].product.id,
                                              notificationType, t)
    IN  rec(Len(list))

\* monitor.js 508-514: the newly-available notification is handed to the
\* notifier, which reports whether any channel delivered it.
NotifyNewlyAvailable ==
    /\ pc = "notifyAvail"
    /\ \E ok \in BOOLEAN :
          notifyLog' = Append(notifyLog,
              [type |-> "favorites_newly_available", block |-> "favorites",
               products |-> CandidateIds(results.newlyAvailableFavorites),
               ok |-> ok])
    /\ pc' = "recordAvail"
    /\ UNCHANGED <<callVars, changes, isRunning, now, configVars, dbVars, batch, urlIdx,
                   idx, failedAt, missing, results, invocations, cycles, startHist,
                   startSent, outcome, tagVars>>

\* Variant: the rows are written only when the notifier reported a delivery.
RecordNewlyAvailableIfDelivered ==
    /\ pc = "recordAvail"
    /\ notifications_sent' =
          IF notifyLog[Len(notifyLog)].ok
          THEN RecordAll(notifications_sent, results.newlyAvailableFavorites,
                         "favorite_newly_available", now)
          ELSE notifications_sent
    /\ pc' = AfterAvailable(results, tagIdx)
    /\ UNCHANGED <<callVars, changes, isRunning, now, configVars, products, product_group_id, history,
                   cycleVars, failedAt, invocations, cycles, startHist,
                   startSent, outcome>>

\* monitor.js 516-519: the notification log rows of its candidates.
RecordNewlyAvailable ==
    /\ pc = "recordAvail"
    /\ notifications_sent' = RecordAll(notifications_sent,
            results.newlyAvailableFavorites, "favorite_newly_available", now)
    /\ pc' = AfterAvailable(results, tagIdx)
    /\ UNCHANGED <<callVars, changes, isRunning, now, configVars, products, product_group_id, history,
                   cycleVars, failedAt, invocations, cycles, startHist,
                   startSent, outcome>>

\* monitor.js 525-531
NotifyNewlyUnavailable ==
    /\ pc = "notifyUnavail"
    /\ \E ok \in BOOLEAN :
          notifyLog' = Append(notifyLog,
              [type |-> "favorites_newly_unavailable", block |-> "favorites",
               products |-> CandidateIds(results.newlyUnavailableFavorites),
               ok |-> ok])
    /\ pc' = "recordUnavail"
    /\ UNCHANGED <<callVars, changes, isRunning, now, configVars, dbVars, batch, urlIdx,
                   idx, failedAt, missing, results, invocations, cycles, startHist,
                   startSent, outcome, tagVars>>

\* monitor.js 533-536
RecordNewlyUnavailable ==
    /\ pc = "recordUnavail"
    /\ notifications_sent' = RecordAll(notifications_sent,
            results.newlyUnavailableFavorites, "favorite_newly_unavailable", now)
    /\ pc' = AfterUnavailable(results, tagIdx)
    /\ UNCHANGED <<callVars, changes, isRunning, now, configVars, products, product_group_id, history,
                   cycleVars, failedAt, invocations, cycles, startHist,
                   startSent, outcome>>

\* monitor.js 542-552: the preference matches are notified as new products.
NotifyPreferenceMatches ==
    /\ pc = "notifyPref"
    /\ \E ok \in BOOLEAN :
          notifyLog' = Append(notifyLog,
              [type |-> "new_products", block |-> "preferences",
               products |-> Range(results.preferenceMatches), ok |-> ok])
    /\ pc' = AfterPreferences(results, tagIdx)
    /\ UNCHANGED <<callVars, changes, isRunning, now, configVars, dbVars, batch, urlIdx, idx,
                   failedAt, missing, results, invocations, cycles,
                   startHist, startSent, outcome, tagVars>>

\* monitor.js 555-593: the new-products notification, one entry per
\* group (nothing is logged in the database for it).
NotifyNewProducts ==
    /\ pc = "notifyNew"
    /\ \E ok \in BOOLEAN :
          notifyLog' = Append(notifyLog,
              [type |-> "new_products", block |-> "new",
               products |-> groupedProducts(results, tagIdx), ok |-> ok])
    /\ pc' = "finally"
    /\ UNCHANGED <<callVars, changes, isRunning, now, configVars, dbVars, batch, urlIdx,
                   idx, failedAt, missing, results, invocations, cycles, startHist,
                   startSent, outcome, tagVars>>

\* Variant: the finally block leaves the flag set.
FinallyKeepsFlag ==
    /\ pc = "finally"
    /\ isRunning' = isRunning
    /\ pc' = "idle"
    /\ outcome' = IF outcome = "running" THEN "completed" ELSE outcome
    /\ batch' = <<>>
    /\ urlIdx' = 0
    /\ idx' = 0
    /\ missing' = <<>>
    /\ results' = EmptyResults
    /\ notifyLog' = <<>>
    /\ tags' = <<>>
    /\ tagIdx' = 0
    /\ productGroupsSeen' = {}
    /\ trulyNewProducts' = <<>>
    /\ newVariants' = <<>>
    /\ tagResults' = <<>>
    /\ tagOffset' = 0
    /\ UNCHANGED <<callVars, changes, now, configVars, dbVars, failedAt, invocations,
                   cycles, startHist, startSent>>

\* CoffeeScraper.close (analytics.js 446-452): the browser is closed and
\* the call returns.
scraperCloseReturns == TRUE

\* monitor.js 494-499: the scraper is closed and the flag cleared.
Finally ==
    /\ pc = "finally"
    /\ scraperCloseReturns
    /\ isRunning' = FALSE
    /\ pc' = "idle"
    /\ outcome' = IF outcome = "running" THEN "completed" ELSE outcome
    /\ batch' = <<>>
    /\ urlIdx' = 0
    /\ idx' = 0
    /\ missing' = <<>>
    /\ results' = EmptyResults
    /\ notifyLog' = <<>>
    /\ tags' = <<>>
    /\ tagIdx' = 0
    /\ productGroupsSeen' = {}
    /\ trulyNewProducts' = <<>>
    /\ newVariants' = <<>>
    /\ tagResults' = <<>>
    /\ tagOffset' = 0
    /\ UNCHANGED <<callVars, changes, now, configVars, dbVars, failedAt, invocations,
                   cycles, startHist, startSent>>

Next ==
    \/ checkProducts
    \/ ScrapeProducts
    \/ ScrapeFails
    \/ NotifyError
    \/ ProcessProduct
    \/ ReadPreviouslyAvailable
    \/ MarkMissing
    \/ NotifyNewlyAvailable
    \/ RecordNewlyAvailable
    \/ NotifyNewlyUnavailable
    \/ RecordNewlyUnavailable
    \/ NotifyNewProducts
    \/ Finally

Spec == Init /\ [][Next]_vars

\* The cycle with failing calls inside the per-product loop, started on
\* the store an earlier run left and with favorites matching in use, so
\* that the missing-product pass and the matching have work to do; one
\* invocation is already counted, which leaves the cycle that fails and
\* one more before or after it.
FaultInit ==
    /\ StartUp(Stores, FALSE, MaxInvocations - 2)
    /\ NoCalls
    /\ ~preferencesEnabled
    /\ Len(products) > 0

FaultNext ==
    \/ Next
    \/ ProcessProductFails

FaultSpec == FaultInit /\ [][FaultNext]_vars

\* The stores a run with the tagger enabled can start on: empty; one
\* Kenya listing that was never tagged; one Peru 250g listing that was
\* never tagged, that got the fallback bag, or that was tagged as Peru.
TagStores ==
    {[products |-> <<>>, product_group_id |-> <<>>, history |-> <<>>],
     [products |-> <<3>>, product_group_id |-> <<NoGroup>>,
      history |-> <<[id |-> 1, product_id |-> 1, available |-> TRUE,
                     price |-> 10, checked_at |-> 0]>>]}
    \cup
    {[products |-> <<1>>,
      product_group_id |-> <<generateProductGroupId(aiTags, roasteryChars("R1"))>>,
      history |-> <<[id |-> 1, product_id |-> 1, available |-> TRUE,
                     price |-> 8, checked_at |-> 0]>>] :
        aiTags \in {<<>>, <<EmptyTags>>,
                    <<[EmptyTags EXCEPT !.country_of_origin = <<"P", "e", "r", "u">>]>>}}

\* An API key is configured; one check cycle is followed.
TagInit == StartUp(TagStores, TRUE, MaxInvocations - 1) /\ NoCalls

TagNext ==
    \/ Next
    \/ TagProducts
    \/ TagProductsFails
    \/ SaveAITagsThrows
    \/ TagOne
    \/ ScorePreferences
    \/ NotifyPreferenceMatches

TagSpec == TagInit /\ [][TagNext]_vars

\* --------------------------------------------------- the utility functions
\* scoreProduct is applied to a bag and a preferences object.
ScoreProduct ==
    /\ verdict = <<>>
    /\ verdict' = <<scoreProduct(attrs, preferences)>>
    /\ UNCHANGED <<isRunning, pc, now, configVars, dbVars, cycleVars,
                   failedAt, changes, invocations, cycles, startHist, startSent,
                   outcome, attrs, preferences, productName, size>>

ScoreInit ==
    /\ StartUp(Stores, FALSE, 0)
    /\ products = <<>>
    /\ attrs \in AttributeBags
    /\ preferences \in PreferenceConfigs
    /\ preferencesEnabled = (preferences.enabled = <<TRUE>>)
    /\ verdict = <<>>
    /\ productName = <<>>
    /\ size = <<>>

ScoreNext == ScoreProduct

ScoreSpec == ScoreInit /\ [][ScoreNext]_vars

\* extractSize is applied to a product name.
ExtractSize ==
    /\ size = <<>>
    /\ size' = <<extractSize(productName)>>
    /\ UNCHANGED <<isRunning, pc, now, configVars, dbVars, cycleVars,
                   failedAt, changes, invocations, cycles, startHist, startSent,
                   outcome, attrs, preferences, verdict, productName>>

SizeInit ==
    /\ StartUp(Stores, FALSE, 0)
    /\ products = <<>>
    /\ ~preferencesEnabled
    /\ attrs = [organic |-> Undefined, decaf |-> Undefined, roast |-> Undefined]
    /\ preferences = [enabled |-> <<preferencesEnabled>>, dimensions |-> <<>>,
                      constraints |-> <<>>, min_score |-> <<>>]
    /\ verdict = <<>>
    /\ productName \in SizeNames
    /\ size = <<>>

SizeNext == ExtractSize

SizeSpec == SizeInit /\ [][SizeNext]_vars

\* =================================================================== claims
\* The positions of a cycle at which its missing-product pass is over.
AfterMissingPass ==
    pc \in {"tag", "tagLoop", "score", "notifyAvail", "recordAvail",
            "notifyUnavail", "recordUnavail", "notifyPref", "notifyNew",
            "finally"}

\* The newest row (highest id) of product p among the first n history rows.
LastRowBefore(n, p) ==
    Max({i \in 1..n : history[i].product_id = p})

\* p's most recent record when the active cycle started says available.
WasAvailable(p) ==
    /\ \E i \in 1..startHist : history[i].product_id = p
    /\ history[LastRowBefore(startHist, p)].available

AbsentFromBatch(p) == products[p] \notin scrapedProductKeys(batch)

\* The active cycle appended an unavailable record for p at the price of
\* p's most recent earlier record.
MarkedUnavailable(p) ==
    \E i \in (startHist + 1)..Len(history) :
        /\ history[i].product_id = p
        /\ ~history[i].available
        /\ history[i].price = history[LastRowBefore(startHist, p)].price

\* C1 (as stated): in every check cycle whose scrape returned, each product
\* whose most recent record is available and whose key is absent from the
\* scraped batch has, by the end of the cycle, a new record with
\* available = false and its last known price.
C1_EveryCycleMarksMissing ==
    (pc = "finally" /\ outcome \in {"running", "empty"}) =>
        \A p \in 1..Len(products) :
            (WasAvailable(p) /\ AbsentFromBatch(p)) => MarkedUnavailable(p)

\* C1 (amended): in every check cycle that scraped a non-empty batch and
\* finished its missing-product pass, each product whose most recent record
\* was available and whose key is absent from the batch has a new record
\* with available = false and its last known price.
C1_NonEmptyCycleMarksMissing ==
    (AfterMissingPass /\ outcome = "running") =>
        \A p \in 1..Len(products) :
            (WasAvailable(p) /\ AbsentFromBatch(p)) => MarkedUnavailable(p)

\* A missing product was marked, and its last known price differs from the
\* price of an older record of it.
C1_Witness ==
    /\ AfterMissingPass
    /\ outcome = "running"
    /\ \E p \in 1..Len(products) :
          /\ WasAvailable(p)
          /\ AbsentFromBatch(p)
          /\ MarkedUnavailable(p)
          /\ \E i \in 1..startHist :
                /\ history[i].product_id = p
                /\ history[i].price # history[LastRowBefore(startHist, p)].price

\* The most recently appended and the one before it, of product p.
NewestRow(p) == history[Max(RecordsOf(history, p))]

PreviousRow(p) ==
    history[Max(RecordsOf(history, p) \ {Max(RecordsOf(history, p))})]

\* C2: for a product with at least two records, whatever
\* getProductAvailabilityChange returns compares the newest record with the
\* second-newest: newly available iff newest available and previous not,
\* newly unavailable iff newest unavailable and previous available.
C2_ComparesNewestWithPrevious ==
    \A p \in 1..Len(products) :
        Cardinality(RecordsOf(history, p)) >= 2 =>
            \A change \in getProductAvailabilityChange(history, p) :
                /\ change.isNewlyAvailable =
                      (NewestRow(p).available /\ ~PreviousRow(p).available)
                /\ change.isNewlyUnavailable =
                      (~NewestRow(p).available /\ PreviousRow(p).available)

\* C3: for a product with exactly one record, whatever
\* getProductAvailabilityChange returns reports the current state as new:
\* newly available iff the record is available, newly unavailable iff it is
\* unavailable.
C3_FirstRecordIsNew ==
    \A p \in 1..Len(products) :
        Cardinality(RecordsOf(history, p)) = 1 =>
            \A change \in getProductAvailabilityChange(history, p) :
                /\ change.isNewlyAvailable = NewestRow(p).available
                /\ change.isNewlyUnavailable = ~NewestRow(p).available

\* A favorite seen for the first time, out of stock, is among the cycle's
\* newly unavailable favorites.
C3_Witness ==
    \E i \in 1..Len(results.newlyUnavailableFavorites) :
        LET p == results.newlyUnavailableFavorites[i].product.id
        IN  /\ Cardinality(RecordsOf(history, p)) = 1
            /\ ~NewestRow(p).available

\* C4: the record the state-change classification treats as current, and
\* the record getAvailableProducts takes availability and price from, is
\* the most recently appended record of the product, also when several
\* records of the product carry the same checked_at.
C4_CurrentIsMostRecentlyAppended ==
    \A p \in 1..Len(products) :
        RecordsOf(history, p) # {} =>
            /\ \A r \in RecentHistory(history, p) :
                  r[1].available = NewestRow(p).available
            /\ \A row \in AvailableRows(products, history) :
                  row.id = p => /\ NewestRow(p).available
                                /\ row.current_price = NewestRow(p).price
            /\ NewestRow(p).available =>
                  \E row \in AvailableRows(products, history) : row.id = p

\* Products scraped so far by the active cycle.
ScrapedSoFar ==
    {ProductId(products, batch[i].key) : i \in 1..(idx - 1)}

\* C5: a scraped product is in the cycle's newProducts list iff it had no
\* record before the cycle.
C5_NewIffFirstSighting ==
    (pc \in {"process", "missing", "markMissing"} \/ AfterMissingPass) =>
        \A p \in 1..Len(products) :
            (\E i \in 1..Len(results.newProducts) : results.newProducts[i] = p)
                <=> (/\ p \in ScrapedSoFar
                     /\ outcome = "running"
                     /\ ~\E i \in 1..startHist : history[i].product_id = p)

\* No two history rows of one product carry the same checked_at.
NoTiedRecords ==
    \A i, j \in 1..Len(history) :
        (i # j /\ history[i].product_id = history[j].product_id)
            => history[i].checked_at # history[j].checked_at

\* C6: the same (product, type) is never notified twice within 24 hours:
\* no two notification records of the same product and type, written at
\* different times, lie within the 24-hour window of one another (stated
\* for histories without tied timestamps).
C6_NoRepeatWithinWindow ==
    NoTiedRecords =>
    \A i, j \in 1..Len(notifications_sent) :
        (/\ notifications_sent[i].sent_at < notifications_sent[j].sent_at
         /\ notifications_sent[i].product_id = notifications_sent[j].product_id
         /\ notifications_sent[i].notification_type
               = notifications_sent[j].notification_type)
        => notifications_sent[j].sent_at - notifications_sent[i].sent_at
              > DefaultHoursAgo * HourSecs

NotificationTypes == {"favorite_newly_available", "favorite_newly_unavailable"}

\* The rows of the notification log for product p and the given type.
RowsFor(p, type) ==
    {i \in 1..Len(notifications_sent) :
        /\ notifications_sent[i].product_id = p
        /\ notifications_sent[i].notification_type = type}

\* C7: wasNotificationSentRecently(product, type, h) is true iff a record of
\* exactly that product and type lies within the last h hours: with the
\* default window it is true one hour after the latest such record and false
\* twenty-five hours after it, false when there is no such record, and, asked
\* now with a window of 1 or 24 hours, true exactly when such a record is at
\* most that old.
C7_RecentlyIffSameProductAndType ==
    \A p \in 1..(Len(products) + 1) : \A type \in NotificationTypes :
        LET rows == RowsFor(p, type)
            T == Max({notifications_sent[i].sent_at : i \in rows})
        IN  /\ rows = {} =>
                  ~wasNotificationSentRecently(notifications_sent, p, type,
                                               DefaultHoursAgo, now)
            /\ rows # {} =>
                  /\ wasNotificationSentRecently(notifications_sent, p, type,
                         DefaultHoursAgo, T + HourSecs)
                  /\ ~wasNotificationSentRecently(notifications_sent, p, type,
                         DefaultHoursAgo, T + 25 * HourSecs)
            /\ \A h \in {1, DefaultHoursAgo} :
                  wasNotificationSentRecently(notifications_sent, p, type, h, now)
                     <=> (rows # {} /\ now - T <= h * HourSecs)

\* A product with a record of one type older than 24 hours and a record of
\* the other type inside the window.
C7_Witness ==
    \E p \in 1..Len(products) : \E t1, t2 \in NotificationTypes :
        /\ t1 # t2
        /\ RowsFor(p, t1) # {}
        /\ RowsFor(p, t2) # {}
        /\ ~wasNotificationSentRecently(notifications_sent, p, t1,
                                        DefaultHoursAgo, now)
        /\ wasNotificationSentRecently(notifications_sent, p, t2,
                                       DefaultHoursAgo, now)

\* The notification a log row of the given type belongs to.
AttemptType(notificationType) ==
    IF notificationType = "favorite_newly_available"
    THEN "favorites_newly_available"
    ELSE "favorites_newly_unavailable"

\* The log rows the active cycle has written.
RowsOfCycle == (startSent + 1)..Len(notifications_sent)

\* C8: a candidate's notification record is written after and only after
\* the delivery attempt of the notification that contains it, and it is
\* written whatever the attempt's result: every row of the active cycle has
\* an earlier attempt of its type containing its product, and once the
\* recording step that follows an attempt is over, every candidate of that
\* attempt has its row, delivered or not.
C8_RecordedAfterAttempt ==
    pc # "idle" =>
        /\ \A i \in RowsOfCycle :
              \E a \in 1..Len(notifyLog) :
                 /\ notifyLog[a].type
                       = AttemptType(notifications_sent[i].notification_type)
                 /\ notifications_sent[i].product_id \in notifyLog[a].products
        /\ \A a \in 1..Len(notifyLog) : \A type \in NotificationTypes :
              (/\ notifyLog[a].type = AttemptType(type)
               /\ ~(a = Len(notifyLog) /\ pc \in {"recordAvail", "recordUnavail"}))
              => \A p \in notifyLog[a].products :
                    \E i \in RowsOfCycle :
                       /\ notifications_sent[i].product_id = p
                       /\ notifications_sent[i].notification_type = type

\* An attempt no channel delivered, with its candidates' rows written.
C8_Witness ==
    /\ pc \notin {"idle", "recordAvail", "recordUnavail"}
    /\ \E a \in 1..Len(notifyLog) :
          /\ notifyLog[a].type = "favorites_newly_available"
          /\ ~notifyLog[a].ok
          /\ \A p \in notifyLog[a].products :
                \E i \in RowsOfCycle :
                   /\ notifications_sent[i].product_id = p
                   /\ notifications_sent[i].notification_type
                         = "favorite_newly_available"

\* C9: an invocation of checkProducts while a cycle is in progress changes
\* nothing (no scrape, no record, no notification, nothing left to run
\* later), and a cycle starts only from an invocation made while none is in
\* progress: at most one cycle is active at any time.
C9_OverlapSkipped ==
    [][/\ (isRunning /\ invocations' # invocations)
            => UNCHANGED <<isRunning, pc, now, preferencesEnabled, dbVars,
                           cycleVars, cycles, startHist, startSent, outcome>>
       /\ (cycles' # cycles \/ (pc # "scrape" /\ pc' = "scrape"))
            => (~isRunning /\ pc = "idle" /\ invocations' = invocations + 1)
      ]_vars

\* A cycle is in progress and an invocation made during it was skipped.
C9_Witness ==
    /\ isRunning
    /\ cycles = 1
    /\ invocations = 2
    /\ Len(history) > startHist

FailedNow == {i \in 1..Len(batch) : isRunning /\ <<cycles, i>> \in failedAt}

\* The history rows the active cycle wrote for element i of the batch.
RecordedElement(i) ==
    \E n \in (startHist + 1)..Len(history) :
        /\ products[history[n].product_id] = batch[i].key
        /\ history[n].available = batch[i].available
        /\ history[n].price = batch[i].price

\* C11: a failure while one scraped product is processed does not abort
\* the cycle: the cycle stays on its normal path (the loop, the
\* missing-product pass, the notifications, the end), and every product of
\* the batch whose processing did not fail has its availability recorded
\* once the loop is past it.
C11_ProductFailureDoesNotAbort ==
    FailedNow # {} =>
        /\ outcome = "running"
        /\ pc \in {"process", "missing", "markMissing"} \/ AfterMissingPass
        /\ \A i \in 1..Len(batch) :
              (i \notin FailedNow /\ (pc = "process" => i < idx))
                  => RecordedElement(i)

\* The first product failed, the second was recorded, the cycle went
\* through the missing-product pass and sent a notification.
C11_Witness ==
    /\ pc = "finally"
    /\ outcome = "running"
    /\ FailedNow = {1}
    /\ Len(batch) = 2
    /\ RecordedElement(2)
    /\ Len(notifyLog) > 0
    /\ \E n \in (startHist + 1)..Len(history) :
          products[history[n].product_id] \notin scrapedProductKeys(batch)

\* C12: a failing fetch of one shop URL does not abort the cycle: once the
\* scraper is initialised and a URL has been scraped, no step of the
\* scraping loop leads to the catch of checkProducts or loses the listings
\* already collected from the other URLs.
C12_UrlFailureDoesNotAbort ==
    [][(pc = "scrape" /\ urlIdx > 1)
          => (pc' # "catch" /\ Len(batch') >= Len(batch))]_vars

\* The rows of the products table holding key k.
RowsWithKey(prods, k) == {i \in 1..Len(prods) : prods[i] = k}

\* C13: no two Product rows share a (name, roastery) key, before and after
\* every step; the rows already there keep their ids, and saving a key
\* that already has a row adds no row.
C13_SaveKeepsKeysUnique ==
    [][/\ \A k \in Keys : Cardinality(RowsWithKey(products, k)) <= 1
       /\ \A k \in Keys : Cardinality(RowsWithKey(products', k)) <= 1
       /\ Len(products') >= Len(products)
       /\ \A i \in 1..Len(products) : products'[i] = products[i]
       /\ (pc = "process" /\ RowsWithKey(products, batch[idx].key) # {})
             => Len(products') = Len(products)]_vars

\* A product has been saved twice, at different times, and has one row.
C13_Witness ==
    \E p \in 1..Len(products) :
        /\ Cardinality(RowsWithKey(products, products[p])) = 1
        /\ \E m, n \in 1..Len(history) :
              /\ history[m].product_id = p /\ history[n].product_id = p
              /\ history[m].available /\ history[n].available
              /\ 0 < history[m].checked_at
              /\ history[m].checked_at < history[n].checked_at

\* C14: the availability history and the notification log only grow at
\* the end: every step keeps every row already written, unchanged and at
\* its place.
C14_AppendOnly ==
    [][/\ Len(history') >= Len(history)
       /\ \A i \in 1..Len(history) : history'[i] = history[i]
       /\ Len(notifications_sent') >= Len(notifications_sent)
       /\ \A i \in 1..Len(notifications_sent) :
              notifications_sent'[i] = notifications_sent[i]]_vars

\* Both tables hold rows written by two different cycles.
C14_Witness ==
    /\ \E m, n \in 1..Len(history) :
          /\ history[m].product_id = history[n].product_id
          /\ 0 < history[m].checked_at
          /\ history[m].checked_at < history[n].checked_at
    /\ \E m, n \in 1..Len(notifications_sent) :
          /\ notifications_sent[m].product_id = notifications_sent[n].product_id
          /\ notifications_sent[m].sent_at < notifications_sent[n].sent_at

\* The new products of the active cycle as the tagging loop goes through
\* them.
TaggedList ==
    IF results.allNewProducts # <<>> THEN results.allNewProducts
    ELSE results.newProducts

\* C15: a product whose tagging gave the fallback all-empty bag has no
\* group id and is not classified as a variant of another product.
C15_EmptyBagHasNoGroup ==
    \A i \in 1..tagIdx :
        tags[i] = EmptyTags
            => /\ product_group_id[TaggedList[i]] = NoGroup
               /\ TaggedList[i] \notin Range(newVariants)

\* The bags a and b are the same up to letter case in every field that
\* enters the group id.
SameUpToCase(a, b) ==
    /\ toLowerCase(a.country_of_origin) = toLowerCase(b.country_of_origin)
    /\ toLowerCase(a.region) = toLowerCase(b.region)
    /\ toLowerCase(a.variety) = toLowerCase(b.variety)
    /\ toLowerCase(a.process_method) = toLowerCase(b.process_method)
    /\ toLowerCase(a.roast_level) = toLowerCase(b.roast_level)
    /\ a.is_decaf = b.is_decaf

\* C16: two products of one roastery tagged in a cycle get the same group
\* id when their bags are the same up to letter case, and different group
\* ids when the bags differ in a field.
C16_GroupIdFollowsBag ==
    \A i, j \in 1..tagIdx :
        Catalogue[products[TaggedList[i]]].roastery_name
            = Catalogue[products[TaggedList[j]]].roastery_name
        => (SameUpToCase(tags[i], tags[j])
              <=> product_group_id[TaggedList[i]] = product_group_id[TaggedList[j]])

\* Product p had a row in the history before the active cycle started.
StoredBefore(p) == \E n \in 1..startHist : history[n].product_id = p

\* Products p and q carry the same, non-null, group id.
SameGroupId(p, q) ==
    /\ product_group_id[p] # NoGroup
    /\ product_group_id[p] = product_group_id[q]

\* C17: of the products first seen in the cycle, those classified as truly
\* new, and those with an entry in the new-product notification, have
\* pairwise different group ids and share their group id with no product
\* that was stored before the cycle (and keeps the group id it had then).
C17_OneNewPerGroup ==
    LET Listed == UNION {notifyLog[a].products :
                            a \in {x \in 1..Len(notifyLog) :
                                      notifyLog[x].block = "new"}}
        Fresh(S) == {p \in S : ~StoredBefore(p)}
        OnePerGroup(S) ==
            \A p \in Fresh(S) :
                /\ \A q \in Fresh(S) : SameGroupId(p, q) => p = q
                /\ \A q \in 1..Len(products) :
                      (StoredBefore(q) /\ q \notin Range(TaggedList))
                          => ~SameGroupId(p, q)
    IN  /\ OnePerGroup(Range(trulyNewProducts))
        /\ OnePerGroup(Listed)

\* The size token of a catalogue key.
SizeOf(k) == extractSizeFromName(Catalogue[k].name)

\* C18: the representative of a merged candidate is organic when a merged
\* listing is organic, and is a 1kg listing when a merged listing of its
\* organic status is 1kg, whatever the order of arrival.
C18_RepresentativeIsPreferred ==
    \A n \in 1..Len(results.newlyAvailableFavorites) :
        LET c == results.newlyAvailableFavorites[n]
            rep == c.product.key
        IN  \A k \in c.merged :
                /\ Catalogue[k].organic => Catalogue[rep].organic
                /\ (Catalogue[k].organic = Catalogue[rep].organic
                      /\ SizeOf(k) = "1kg") => SizeOf(rep) = "1kg"

\* C19: for every candidate of newly available favorites, availableSizes
\* lists without repetition exactly the size tokens of the merged
\* listings, 250g before 1kg, and sizeData has one entry for each of
\* these sizes and for no other.
C19_SizesAreUnionOfMerged ==
    \A n \in 1..Len(results.newlyAvailableFavorites) :
        LET c == results.newlyAvailableFavorites[n]
            sizes == c.availableSizes
        IN  /\ Range(sizes) = {SizeOf(k) : k \in c.merged} \ {"null"}
            /\ Cardinality(Range(sizes)) = Len(sizes)
            /\ \A a, b \in 1..Len(sizes) :
                  (sizes[a] = "250g" /\ sizes[b] = "1kg") => a < b
            /\ {e.size : e \in c.sizeData} = Range(sizes)
            /\ Cardinality(c.sizeData) = Len(sizes)
            /\ \A e \in c.sizeData : e.key \in c.merged /\ SizeOf(e.key) = e.size

\* The 1kg listing arrived first and the 250g listing was merged into its
\* candidate: the sizes are listed 250g first.
C19_Witness ==
    \E n \in 1..Len(results.newlyAvailableFavorites) :
        LET c == results.newlyAvailableFavorites[n]
        IN  /\ SizeOf(c.product.key) = "1kg"
            /\ c.merged = {1, 2}
            /\ c.availableSizes = <<"250g", "1kg">>

\* C20: one matching strategy per cycle, chosen by the preferences flag:
\* with the flag on the cycle holds no favorite candidate, has attempted no
\* favorites notification and has logged none; with the flag off it holds
\* no preference match and has attempted no preference notification.
C20_OneStrategyPerCycle ==
    /\ preferencesEnabled =>
          /\ results.newlyAvailableFavorites = <<>>
          /\ results.newlyUnavailableFavorites = <<>>
          /\ \A a \in 1..Len(notifyLog) : notifyLog[a].block # "favorites"
          /\ Len(notifications_sent) = startSent
    /\ ~preferencesEnabled =>
          /\ results.preferenceMatches = <<>>
          /\ \A a \in 1..Len(notifyLog) : notifyLog[a].block # "preferences"

\* With the flag on, a cycle that saw a favorite (Peru) become available
\* for the first time has notified it as a preference match.
C20_Witness ==
    /\ preferencesEnabled
    /\ pc = "finally"
    /\ \E n \in 1..Len(batch) :
          /\ batch[n].available
          /\ FirstMatchingFavorite(Catalogue[batch[n].key].name) # 0
          /\ \E a \in 1..Len(notifyLog) :
                /\ notifyLog[a].block = "preferences"
                /\ ProductId(products, batch[n].key) \in notifyLog[a].products

\* Constraint i of the preferences rejects the bag scoreProduct was given.
Rejects(i) ==
    /\ matchesAll(attrs, preferences.constraints[i].when)
    /\ ~matchesAll(attrs, preferences.constraints[i].require)

\* C21: whenever some configured constraint has a when that the bag
\* matches and a require that it does not match, scoreProduct returns score
\* 0 and accepted = false, whatever the dimension weights and min_score;
\* the empty predicate matches every bag.
C21_ConstraintRejects ==
    /\ matchesAll(attrs, {})
    /\ (Len(verdict) = 1 /\ \E i \in 1..Len(preferences.constraints) : Rejects(i))
          => (verdict[1].score = 0 /\ ~verdict[1].accepted)

\* A decaf dark roast was rejected by the second constraint (decaf must be
\* medium roast) although it is organic and the weights reach min_score;
\* the first constraint, with an empty require, let it pass.
C21_Witness ==
    /\ Len(verdict) = 1
    /\ preferences.enabled = <<TRUE>>
    /\ preferences.constraints = <<DarkAnything, DecafIsMedium>>
    /\ preferences.dimensions = <<OrganicBoth, RoastWeights>>
    /\ preferences.min_score = <<-1>>
    /\ attrs.decaf = Bool(TRUE)
    /\ attrs.roast = Str(<<"d", "a", "r", "k">>)
    /\ attrs.organic = Bool(TRUE)
    /\ ~Rejects(1)
    /\ Rejects(2)
    /\ verdict[1].score = 0
    /\ ~verdict[1].accepted

\* The weight the dimension configures for the lower-cased value, 0 when
\* it configures none.
ConfiguredWeight(dim, value) ==
    LET hits == {w \in dim.valueMap : w.key = toLowerCase(String(value))}
    IN  IF hits = {} THEN 0 ELSE (CHOOSE w \in hits : TRUE).weight

\* The sum of the configured weights over the dimensions in D whose
\* attribute is present in the bag.
RECURSIVE SumOfWeights(_)
SumOfWeights(D) ==
    IF D = {} THEN 0
    ELSE LET n == CHOOSE x \in D : TRUE
             dim == preferences.dimensions[n]
         IN  (IF IsNullish(attrs[dim.name]) THEN 0
              ELSE ConfiguredWeight(dim, attrs[dim.name]))
             + SumOfWeights(D \ {n})

\* C22: with preferences enabled and no constraint rejecting the bag, the
\* score is the sum, over the configured dimensions whose attribute is
\* present, of the weight configured for the attribute's lower-cased value
\* (0 when there is none), and accepted holds iff score >= min_score, with
\* min_score 0 when unspecified. With dimensions {organic: {"true": 3}} and
\* min_score 3, organic = true gives score 3, accepted, and organic = false
\* gives score 0, not accepted.
C22_ScoreIsSumOfWeights ==
    (/\ Len(verdict) = 1
     /\ preferences.enabled = <<TRUE>>
     /\ ~\E i \in 1..Len(preferences.constraints) : Rejects(i))
    => /\ verdict[1].score = SumOfWeights(1..Len(preferences.dimensions))
       /\ verdict[1].accepted
             <=> verdict[1].score >= (IF preferences.min_score = <<>> THEN 0
                                      ELSE preferences.min_score[1])
       /\ (preferences.dimensions = <<OrganicThree>> /\ preferences.min_score = <<3>>)
             => /\ attrs.organic = Bool(TRUE)
                   => (verdict[1].score = 3 /\ verdict[1].accepted)
                /\ attrs.organic = Bool(FALSE)
                   => (verdict[1].score = 0 /\ ~verdict[1].accepted)

\* A dark roast that is not organic scored -2 - 1 = -3 under the two
\* weighted dimensions and was not accepted with min_score unspecified.
C22_Witness ==
    /\ Len(verdict) = 1
    /\ preferences.enabled = <<TRUE>>
    /\ preferences.constraints = <<>>
    /\ preferences.dimensions = <<OrganicBoth, RoastWeights>>
    /\ preferences.min_score = <<>>
    /\ attrs.organic = Bool(FALSE)
    /\ attrs.roast = Str(<<"d", "a", "r", "k">>)
    /\ verdict[1].score = -3
    /\ ~verdict[1].accepted

\* The size tokens of the name extractSize was given: where they start,
\* their unit and their amount in grams.
SizeTokens ==
    {[at |-> x[1], unit |-> x[2],
      grams |-> parseInt(SizeMatchDigits(productName, x[1], x[2]))
                  * (IF x[2] = <<"k", "g">> THEN 1000 ELSE 1)] :
        x \in {y \in (1..Len(productName)) \X Range(sizePatterns) :
                  \E m \in (y[1] + 1)..(Len(productName) + 1) :
                     SizeMatchAt(productName, y[1], m, y[2])}}

\* C25: extractSize returns a size token of the name, normalized through
\* grams: at least 1000 g is printed in kilograms with the unit kg, less
\* in grams with the unit g ("X 250g" gives "250g", "X 1kg" gives "1kg",
\* "X 1000g" gives "1kg"); it returns null exactly when the name holds no
\* size token.
C25_SizeIsNormalizedToken ==
    Len(size) = 1 =>
        /\ size[1] = <<>> <=> SizeTokens = {}
        /\ size[1] # <<>> =>
              \E tok \in SizeTokens :
                 /\ size[1] = formatSize(tok.grams)
                 /\ tok.grams >= 1000
                       <=> SubSeq(size[1], Len(size[1]) - 1, Len(size[1])) = <<"k", "g">>
                 /\ tok.grams < 1000
                       => size[1] = NumberToString(tok.grams) \o <<"g">>
                 /\ (tok.grams >= 1000 /\ tok.grams % 1000 = 0)
                       => size[1] = NumberToString(tok.grams \div 1000) \o <<"k", "g">>
        /\ productName = <<"X", " ", "2", "5", "0", "g">> => size[1] = <<"2", "5", "0", "g">>
        /\ productName = <<"X", " ", "1", "k", "g">> => size[1] = <<"1", "k", "g">>
        /\ productName = <<"X", " ", "1", "0", "0", "0", "g">> => size[1] = <<"1", "k", "g">>
        /\ productName = <<"X">> => size[1] = <<>>

\* "X 1000g" was given and "1kg" returned.
C25_Witness ==
    /\ productName = <<"X", " ", "1", "0", "0", "0", "g">>
    /\ size = << <<"1", "k", "g">> >>

\* The positions of a cycle after its tagging block.
AfterTagging ==
    pc \in {"notifyAvail", "recordAvail", "notifyUnavail", "recordUnavail",
            "notifyPref", "notifyNew", "finally"}

\* The tagging run of the active cycle was stopped by a quota error:
\* tagProducts was called and left before its last batch.
QuotaStopped ==
    /\ aiEnabled
    /\ AfterTagging
    /\ outcome = "running"
    /\ results.allNewProducts = <<>>
    /\ tagOffset < Len(results.newProducts)

\* C23: when a batch of a tagging run fails with a quota error the run
\* stops there (no bags are handed to the tagging loop, fallback bags
\* included), and each product of the earlier batches, when those were
\* answered in full, keeps the tags obtained for it: when its bag is not
\* the fallback bag, its row carries the group id of that bag.
C23_EarlierBatchesKeepTags ==
    QuotaStopped =>
        /\ tags = <<>>
        /\ tagIdx = 0
        /\ Len(tagResults) = tagOffset =>
              \A n \in {m \in 1..tagOffset : tagResults[m] # EmptyTags} :
                 product_group_id[results.newProducts[n]]
                    = generateProductGroupId(<<tagResults[n]>>,
                         roasteryChars(Catalogue[products[results.newProducts[n]]].roastery_name))

\* C24: tagProducts returns one bag per product it was given, in the
\* order of the products, and the cycle does not fail in the tagging
\* block: there it is on its normal path, and the catch of checkProducts
\* is never reached once tagging has begun.
C24_OneBagPerProduct ==
    /\ pc = "tagLoop" => Len(tags) = Len(TaggedList)
    /\ pc \in {"tag", "tagLoop", "score"} => outcome = "running"
    /\ pc = "catch" => tagOffset = 0

\* Element i of the batch has been processed, its product was seen for the
\* first time and in stock: its one record says available, so it was
\* classified newly available.
FirstSeenAvailable(i) ==
    /\ isRunning
    /\ pc # "scrape"
    /\ i < idx
    /\ <<cycles, i>> \notin failedAt
    /\ batch[i].available
    /\ Cardinality(RecordsOf(history, ProductId(products, batch[i].key))) = 1

\* The listing of key k is held by a newly-available candidate of
\* favorite f, as its representative or merged into it.
HeldFor(k, f) ==
    \E n \in 1..Len(results.newlyAvailableFavorites) :
        /\ results.newlyAvailableFavorites[n].favoriteName = Favorites[f].name
        /\ k \in results.newlyAvailableFavorites[n].merged

\* C26: with favorites matching in use, a scraped product is treated as a
\* match of an enabled favorite iff its name contains, whatever the letter
\* case, one of that favorite's terms, the favorite's organic and size
\* filters being applied to the match: a product first seen in stock is
\* held as newly available for exactly the favorites that match its name
\* and whose filters it passes.
C26_MatchesEveryFavorite ==
    ~preferencesEnabled =>
        \A i \in 1..Len(batch) : \A f \in 1..Len(Favorites) :
            FirstSeenAvailable(i) =>
                (HeldFor(batch[i].key, f)
                   <=> (/\ favoriteMatches(Favorites[f], Catalogue[batch[i].key].name)
                        /\ shouldNotify(Favorites[f], Catalogue[batch[i].key].name,
                                        Catalogue[batch[i].key].organic)))

\* The rows the active cycle has written for product p.
RowsThisCycle(p) ==
    {n \in (startHist + 1)..Len(history) : history[n].product_id = p}

\* The active cycle recorded a newly-available transition for element i
\* of its batch: the one row it wrote for the product says available, and
\* the product had no row before or its newest row said unavailable.
RecordedNewlyAvailable(i) ==
    LET p == ProductId(products, batch[i].key)
    IN  /\ p # 0
        /\ batch[i].available
        /\ Cardinality(RowsThisCycle(p)) = 1
        /\ \A n \in RowsThisCycle(p) : history[n].available
        /\ StoredBefore(p) => ~history[LastRowBefore(startHist, p)].available

\* A newly-available notification was attempted that includes the listing
\* of key k, as the representative of a candidate or merged into it.
AttemptIncludes(k) ==
    \E a \in 1..Len(notifyLog) :
        /\ notifyLog[a].type = "favorites_newly_available"
        /\ \E n \in 1..Len(results.newlyAvailableFavorites) :
              /\ k \in results.newlyAvailableFavorites[n].merged
              /\ results.newlyAvailableFavorites[n].product.id \in notifyLog[a].products

\* C27: with preferences disabled, at the end of a cycle every
\* newly-available transition the cycle recorded for a product that
\* matches an enabled favorite and passes that favorite's organic and size
\* filters has had a notification attempt that includes the product
\* (stated for histories without tied timestamps).
C27_TransitionIsNotified ==
    (NoTiedRecords /\ ~preferencesEnabled /\ pc = "finally" /\ outcome = "running") =>
        \A i \in 1..Len(batch) :
            (/\ RecordedNewlyAvailable(i)
             /\ \E f \in 1..Len(Favorites) :
                   /\ favoriteMatches(Favorites[f], Catalogue[batch[i].key].name)
                   /\ shouldNotify(Favorites[f], Catalogue[batch[i].key].name,
                                   Catalogue[batch[i].key].organic))
            => AttemptIncludes(batch[i].key)

\* p's most recent record when the active cycle started says unavailable.
WasUnavailable(p) ==
    /\ \E i \in 1..startHist : history[i].product_id = p
    /\ ~history[LastRowBefore(startHist, p)].available

\* The active cycle wrote exactly one record for p, an unavailable one.
OneUnavailableRow(p) ==
    /\ Cardinality(RowsThisCycle(p)) = 1
    /\ \A n \in RowsThisCycle(p) : ~history[n].available

\* The state changes reported for p in cycle c.
ChangesOf(p, c) ==
    {n \in 1..Len(changes) : changes[n].product_id = p /\ changes[n].cycle = c}

\* An active cycle in which p stays absent after its disappearance was
\* recorded writes no record for p and reports no state change for it.
StaysUnrecorded ==
    pc # "idle" =>
        \A p \in 1..Len(products) :
            (WasUnavailable(p) /\ AbsentFromBatch(p))
                => (RowsThisCycle(p) = {} /\ ChangesOf(p, cycles) = {})

\* An active cycle reports at most one state change for a product that is
\* absent from its batch: a newly-unavailable one, from the missing-product
\* pass.
ClassifiedAtMostOnce ==
    pc # "idle" =>
        \A p \in 1..Len(products) :
            AbsentFromBatch(p) =>
                /\ Cardinality(ChangesOf(p, cycles)) <= 1
                /\ \A n \in ChangesOf(p, cycles) :
                      changes[n].loop = "missing" /\ ~changes[n].available

\* C28 (as stated): a product that stays absent from the scraped batch
\* over consecutive cycles gets exactly one unavailable record, written in
\* the first cycle in which it is missing (every cycle whose scrape
\* returned, the empty one included), none in the cycles after it, and it
\* is classified newly-unavailable at most once.
C28_RecordedInFirstMissingCycle ==
    /\ (pc = "finally" /\ outcome \in {"running", "empty"}) =>
          \A p \in 1..Len(products) :
              (WasAvailable(p) /\ AbsentFromBatch(p)) => OneUnavailableRow(p)
    /\ StaysUnrecorded
    /\ ClassifiedAtMostOnce

\* C28 (amended): a product that stays absent from the scraped batch over
\* consecutive cycles gets exactly one unavailable record, written in the
\* first of those cycles that scraped a non-empty batch and finished its
\* missing-product pass, none in the cycles after it, and it is classified
\* newly-unavailable at most once.
C28_RecordedInFirstNonEmptyCycle ==
    /\ (AfterMissingPass /\ outcome = "running") =>
          \A p \in 1..Len(products) :
              (WasAvailable(p) /\ AbsentFromBatch(p)) => OneUnavailableRow(p)
    /\ StaysUnrecorded
    /\ ClassifiedAtMostOnce

\* A product is absent for the second cycle running: the cycle before
\* this one recorded it unavailable and classified it newly-unavailable,
\* and this one has finished without a record for it.
C28_Witness ==
    /\ pc = "finally"
    /\ outcome = "running"
    /\ \E p \in 1..Len(products) :
          /\ WasUnavailable(p)
          /\ AbsentFromBatch(p)
          /\ RowsThisCycle(p) = {}
          /\ \E n \in ChangesOf(p, cycles - 1) :
                changes[n].loop = "missing" /\ ~changes[n].available

\* Every cycle wrote at most one record for p: no two of p's records lie
\* less than an hour apart (a cycle takes seconds, the next one starts at
\* least an hour later).
OneRecordPerCycle(p) ==
    \A i, j \in RecordsOf(history, p) :
        i # j => \/ history[i].checked_at >= history[j].checked_at + HourSecs
                 \/ history[j].checked_at >= history[i].checked_at + HourSecs

\* The state changes reported for p, in the order they were reported.
ChangesOfProduct(p) == {n \in 1..Len(changes) : changes[n].product_id = p}

\* m and n are successive state changes of one product.
Successive(p, m, n) ==
    /\ m \in ChangesOfProduct(p)
    /\ n \in ChangesOfProduct(p)
    /\ m < n
    /\ ~\E k \in ChangesOfProduct(p) : m < k /\ k < n

C30_EveryMergedVariantRecorded ==
    \A a \in 1..Len(notifyLog) :
        (/\ notifyLog[a].type = "favorites_newly_available"
         /\ notifyLog[a].ok
         /\ ~(a = Len(notifyLog) /\ pc = "recordAvail"))
        => \A n \in 1..Len(results.newlyAvailableFavorites) :
              \A k \in results.newlyAvailableFavorites[n].merged :
                 \E i \in RowsOfCycle :
                    /\ notifications_sent[i].product_id = ProductId(products, k)
                    /\ notifications_sent[i].notification_type
                          = "favorite_newly_available"
====
